---- MODULE Spec2Model ----
(***************************************************************************)
(* Pool synchronisation, expiry and atomic index replacement of the        *)
(* merges tooling: expire-pool.py, update-pool.py, momlib.py and           *)
(* util/tree.py.                                                           *)
(*                                                                         *)
(* Strings that the code inspects character by character (version          *)
(* strings) are sequences of one-character strings.  File names are        *)
(* opaque strings.                                                         *)
(***************************************************************************)
EXTENDS Integers, Sequences, FiniteSets, TLC

(***************************************************************************)
(* Generic sequence helpers.                                               *)
(***************************************************************************)
Range(s) == { s[i] : i \in DOMAIN s }

RECURSIVE SeqsOver(_, _)
\* every sequence without repetition over S of length at most n
SeqsOver(S, n) ==
    IF n = 0 THEN { <<>> }
    ELSE LET shorter == SeqsOver(S, n - 1)
             longer  == UNION { { Append(s, x) : x \in S \ Range(s) } :
                                s \in shorter }
         IN  shorter \cup longer

\* text[:n] and text[n:] of Python
Prefix(text, n) == SubSeq(text, 1, n)
Suffix(text, n) == SubSeq(text, n + 1, Len(text))

(***************************************************************************)
(* deb.version.Version: parsing and ordering of version strings.           *)
(***************************************************************************)
Digits == { "0", "1", "2", "3", "4", "5", "6", "7", "8", "9" }

DigitVal(c) ==
    CASE c = "0" -> 0 [] c = "1" -> 1 [] c = "2" -> 2 [] c = "3" -> 3
      [] c = "4" -> 4 [] c = "5" -> 5 [] c = "6" -> 6 [] c = "7" -> 7
      [] c = "8" -> 8 [] c = "9" -> 9

\* the letters and punctuation of the version strings of the model, in
\* their sort order: letters first, then punctuation
CmpTable == << "b", "c", "d", "i", "l", "n", "r", "t", "u", "+", "-", ".", ":" >>

\* order of the character at position idx of a non-digit run: the end of
\* the run is 0, "~" sorts before the end, everything else after it
CharOrder(str, idx) ==
    IF idx > Len(str) THEN 0
    ELSE IF str[idx] = "~" THEN -1
    ELSE CHOOSE k \in DOMAIN CmpTable : CmpTable[k] = str[idx]

\* the characters of a version string
VersionChars == Digits \cup Range(CmpTable) \cup { "~" }

\* the longest prefix of s made of characters of S
TakeWhile(s, S) ==
    Prefix(s, CHOOSE n \in 0..Len(s) :
                  /\ \A i \in 1..n : s[i] \in S
                  /\ n = Len(s) \/ s[n + 1] \notin S)

\* int(text) for a run of digits, 0 for the empty run
IntOf[s \in Seq(Digits)] ==
    IF s = <<>> THEN 0
    ELSE IntOf[Prefix(s, Len(s) - 1)] * 10 + DigitVal(s[Len(s)])

Sign(n) == IF n < 0 THEN -1 ELSE IF n > 0 THEN 1 ELSE 0

\* lexicographic comparison of two non-digit runs: the first position at
\* which their orders differ decides
CmpStr(x, y) ==
    LET longest == IF Len(x) > Len(y) THEN Len(x) ELSE Len(y)
        differ  == { i \in 1..longest : CharOrder(x, i) # CharOrder(y, i) }
    IN  IF differ = {} THEN 0
        ELSE LET i == CHOOSE i \in differ : \A j \in differ : i <= j
             IN  Sign(CharOrder(x, i) - CharOrder(y, i))

\* segment-wise comparison of an upstream or revision portion: a non-digit
\* run compared by CharOrder, then a digit run compared numerically, ...
CmpPart[x \in Seq(VersionChars), y \in Seq(VersionChars)] ==
    IF x = <<>> /\ y = <<>> THEN 0
    ELSE LET xs == TakeWhile(x, VersionChars \ Digits)
             ys == TakeWhile(y, VersionChars \ Digits)
             xn == TakeWhile(Suffix(x, Len(xs)), Digits)
             yn == TakeWhile(Suffix(y, Len(ys)), Digits)
         IN  IF CmpStr(xs, ys) # 0 THEN CmpStr(xs, ys)
             ELSE IF IntOf[xn] # IntOf[yn] THEN Sign(IntOf[xn] - IntOf[yn])
             ELSE CmpPart[Suffix(x, Len(xs) + Len(xn)),
                          Suffix(y, Len(ys) + Len(yn))]

\* position of the first c in s, 0 when there is none
FirstIndex(s, c) ==
    IF c \in Range(s) THEN CHOOSE i \in DOMAIN s :
                              s[i] = c /\ \A j \in 1..(i - 1) : s[j] # c
    ELSE 0

\* position of the last c in s, 0 when there is none
LastIndex(s, c) ==
    IF c \in Range(s) THEN CHOOSE i \in DOMAIN s :
                              s[i] = c /\ \A j \in (i + 1)..Len(s) : s[j] # c
    ELSE 0

NoRevision == << "none" >>

\* Version(ver): epoch (default 0), upstream portion, revision portion
Version(ver) ==
    LET colon == FirstIndex(ver, ":")
        epoch == IF colon = 0 THEN 0 ELSE IntOf[Prefix(ver, colon - 1)]
        rest  == Suffix(ver, colon)
        dash  == LastIndex(rest, "-")
    IN  [ epoch    |-> epoch,
          upstream |-> IF dash = 0 THEN rest ELSE Prefix(rest, dash - 1),
          revision |-> IF dash = 0 THEN NoRevision ELSE Suffix(rest, dash) ]

\* compare(a, b) on two version strings: -1, 0 or 1
VersionCmp(a, b) ==
    LET va == Version(a)
        vb == Version(b)
        up == CmpPart[va.upstream, vb.upstream]
    IN  IF va.epoch # vb.epoch THEN Sign(va.epoch - vb.epoch)
        ELSE IF up # 0 THEN up
        ELSE IF va.revision = NoRevision /\ vb.revision = NoRevision THEN 0
        ELSE IF va.revision = NoRevision THEN -1
        ELSE IF vb.revision = NoRevision THEN 1
        ELSE CmpPart[va.revision, vb.revision]

(***************************************************************************)
(* momlib.get_base: the retention base of a version string.                *)
(***************************************************************************)
\* text.rindex(suffix): the 0-based start of the last occurrence, -1 when
\* there is none
RIndex(text, suffix) ==
    LET hits == { i \in 0..(Len(text) - Len(suffix)) :
                    SubSeq(text, i + 1, i + Len(suffix)) = suffix }
    IN  IF hits = {} THEN -1
        ELSE CHOOSE i \in hits : \A j \in hits : j <= i

strip_suffix(text, suffix) ==
    LET idx == RIndex(text, suffix)
    IN  IF idx = -1 THEN text
        ELSE IF \E k \in (idx + Len(suffix) + 1)..Len(text) :
                   ~(text[k] \in Digits \/ text[k] = ".")
             THEN text
        ELSE Prefix(text, idx)

SufBuild  == << "b", "u", "i", "l", "d" >>
SufUbuntu == << "u", "b", "u", "n", "t", "u" >>

\* get_base(source) with slip = False, as the string handed to Version()
get_base(source) ==
    LET v1 == strip_suffix(source.Version, SufBuild)
        v2 == strip_suffix(v1, SufUbuntu)
    IN  IF Len(v2) > 0 /\ v2[Len(v2)] = "-" THEN Append(v2, "0") ELSE v2


(***************************************************************************)
(* Source records.  A record is a paragraph of a Sources file: a function  *)
(* from field names to values.  A checksum field is a sequence of          *)
(* <<hash, size, name>> entries.                                           *)
(***************************************************************************)
ChecksumFields == << "Checksums-Sha512", "Checksums-Sha256", "Checksums-Sha1", "Files" >>

\* files(source): <<size, name>> of each entry of the first checksum field
\* present; the code raises KeyError when there is none
files(source) ==
    LET present == { i \in DOMAIN ChecksumFields :
                       ChecksumFields[i] \in DOMAIN source }
        first   == CHOOSE i \in present : \A j \in present : i <= j
        entries == source[ChecksumFields[first]]
    IN  [ k \in DOMAIN entries |-> << entries[k][2], entries[k][3] >> ]

FileNames(source) == { files(source)[k][2] : k \in DOMAIN files(source) }

\* version strings of the pool of package foo
V_1_0_1  == << "1", ".", "0", "-", "1" >>
V_1_1_1  == << "1", ".", "1", "-", "1" >>
V_1_2_1  == << "1", ".", "2", "-", "1" >>
V_1_2_2  == << "1", ".", "2", "-", "2" >>
V_e1_0_2 == << "1", ":", "1", ".", "0", "-", "2" >>

\* declared size of every file of the model
DeclSize == 2

Entry(hash, name) == << hash, DeclSize, name >>

Rec101 ==
    [ Package |-> "foo", Version |-> V_1_0_1, Directory |-> "pool/main/f/foo",
      Files |-> << Entry("m1", "foo_1.0-1.dsc"), Entry("m2", "foo_1.0.orig.tar.gz") >> ]
Rec111 ==
    [ Package |-> "foo", Version |-> V_1_1_1, Directory |-> "pool/main/f/foo",
      Files |-> << Entry("m3", "foo_1.1-1.dsc"), Entry("m4", "foo_1.1.orig.tar.gz") >> ]
\* a record with a stronger checksum field next to Files
Rec121 ==
    ( "Package" :> "foo" @@ "Version" :> V_1_2_1 @@
      "Directory" :> "pool/main/f/foo" @@
      "Checksums-Sha256" :>
          << Entry("s5", "foo_1.2-1.dsc"), Entry("s6", "foo_1.2.orig.tar.gz") >> @@
      "Files" :>
          << Entry("m5", "foo_1.2-1.dsc"), Entry("m6", "foo_1.2.orig.tar.gz") >> )
\* shares its upstream tarball with 1.2-1
Rec122 ==
    [ Package |-> "foo", Version |-> V_1_2_2, Directory |-> "pool/main/f/foo",
      Files |-> << Entry("m7", "foo_1.2-2.dsc"), Entry("m6", "foo_1.2.orig.tar.gz") >> ]
\* epoch 1 on upstream 1.0: shares its upstream tarball with 1.0-1
RecE102 ==
    [ Package |-> "foo", Version |-> V_e1_0_2, Directory |-> "pool/main/f/foo",
      Files |-> << Entry("m8", "foo_1.0-2.dsc"), Entry("m2", "foo_1.0.orig.tar.gz") >> ]

\* every record whose files the mirror of the archive has ever published,
\* in the order apt-ftparchive lists them
PoolUniverse == << Rec101, Rec111, Rec121, Rec122, RecE102 >>

\* the .dsc of a record: the file apt-ftparchive builds the paragraph from
DscOf(source) == files(source)[1][2]

AllPoolFiles == UNION { FileNames(r) : r \in Range(PoolUniverse) }

\* Version fields of the source of package foo in the destination archive
Our_1_2_1u1    == [ Package |-> "foo", Version |-> << "1", ".", "2", "-", "1", "u", "b", "u", "n", "t", "u", "1" >> ]
Our_1_1_1b1    == [ Package |-> "foo", Version |-> << "1", ".", "1", "-", "1", "b", "u", "i", "l", "d", "1" >> ]
Our_1_2_2u1    == [ Package |-> "foo", Version |-> << "1", ".", "2", "-", "2", "u", "b", "u", "n", "t", "u", "1" >> ]
Our_1_1_u1     == [ Package |-> "foo", Version |-> << "1", ".", "1", "-", "u", "b", "u", "n", "t", "u", "1" >> ]
Our_e1_0_2u1b1 == [ Package |-> "foo", Version |-> << "1", ":", "1", ".", "0", "-", "2", "u", "b", "u", "n", "t", "u", "1", "b", "u", "i", "l", "d", "1" >> ]
Our_1_0_1      == [ Package |-> "foo", Version |-> V_1_0_1 ]

OurSources ==
    { Our_1_2_1u1, Our_1_1_1b1, Our_1_2_2u1, Our_1_1_u1, Our_e1_0_2u1b1, Our_1_0_1 }


(***************************************************************************)
(* Bounds of the model.                                                    *)
(***************************************************************************)
\* most paragraphs of the pool Sources file of the package
MaxIndex == 3
\* most versions on disk that the pool Sources file does not list
MaxExtra == 1

(***************************************************************************)
(* State.                                                                  *)
(***************************************************************************)
VARIABLES
    \* --- the pool directory of package foo, as expire-pool.py sees it ---
    sourcesFile,   \* paragraphs of pool/<distro>/f/foo/Sources, or NoFile
    poolFiles,     \* names of the package files in the pool directory
    newer,         \* directory entries changed after Sources was written
    lastBase,      \* the base handed to expire_pool_sources
    call,          \* which operation has run: "none" before any
    filesBefore,   \* poolFiles when the operation was called
    indexBefore,   \* sourcesFile when the operation was called
    lastKeep,      \* keep_sources handed to expire_sources
    lastRemove,    \* remove_sources handed to expire_sources
    raised,        \* the operation ended by raising
    regenerated    \* update_pool_sources rewrote Sources

expVars == << sourcesFile, poolFiles, newer, lastBase, call,
              filesBefore, indexBefore, lastKeep, lastRemove, raised,
              regenerated >>

\* the Sources file of the pool directory: absent, or its paragraphs
NoFile == [ exists |-> FALSE, paras |-> <<>> ]
IndexOf(sources) == [ exists |-> TRUE, paras |-> sources ]

(***************************************************************************)
(* momlib.version_sort, a stable sort by Version.                          *)
(***************************************************************************)
\* list.sort keeps the order of equal keys: a record goes before the first
\* record of a strictly greater version
InsertByVersion[sorted \in Seq(Range(PoolUniverse)), r \in Range(PoolUniverse)] ==
    LET greater == { i \in DOMAIN sorted :
                       VersionCmp(sorted[i].Version, r.Version) = 1 }
        at == IF greater = {} THEN Len(sorted) + 1
              ELSE CHOOSE i \in greater : \A j \in greater : i <= j
    IN  Prefix(sorted, at - 1) \o << r >> \o Suffix(sorted, at - 1)

SortByVersion[sources \in Seq(Range(PoolUniverse))] ==
    IF sources = <<>> THEN <<>>
    ELSE InsertByVersion[SortByVersion[Prefix(sources, Len(sources) - 1)],
                         sources[Len(sources)]]

\* a sort that leaves the list as it is
version_sort_unsorted(sources) == sources

version_sort(sources) == SortByVersion[sources]

(***************************************************************************)
(* expire-pool.py: expire_pool_sources and expire_sources.                 *)
(***************************************************************************)
\* "base > source['Version']" with the operands swapped
IsOlder_swapped(base, source) == VersionCmp(base, source.Version) = -1

\* "base > source['Version']"
IsOlder(base, source) == VersionCmp(base, source.Version) = 1

\* "base == source['Version']"
IsBase(base, source) == VersionCmp(base, source.Version) = 0

\* the two lists without the step that keeps the newest source below a
\* base that was not found
ExpirePartition_noNewest(sources, base) ==
    [ keep   |-> SelectSeq(sources, LAMBDA s : ~IsOlder(base, s)),
      remove |-> SelectSeq(sources, LAMBDA s : IsOlder(base, s)) ]

\* the keep and remove lists that expire_pool_sources hands to
\* expire_sources
ExpirePartition(sources, base) ==
    LET bases      == SelectSeq(sources, LAMBDA s : IsOlder(base, s))
        keep       == SelectSeq(sources, LAMBDA s : ~IsOlder(base, s))
        base_found == \E i \in DOMAIN sources :
                          ~IsOlder(base, sources[i]) /\ IsBase(base, sources[i])
        sorted     == version_sort(bases)
    IN  IF ~base_found /\ Len(bases) > 0
        THEN [ keep   |-> Append(keep, sorted[Len(sorted)]),
               remove |-> Prefix(sorted, Len(sorted) - 1) ]
        ELSE [ keep |-> keep, remove |-> bases ]

\* a keep_files set that is never filled
KeepFiles_empty(keep_sources) == {}

\* keep_files: every name listed by a record of keep_sources
KeepFiles(keep_sources) ==
    UNION { FileNames(keep_sources[i]) : i \in DOMAIN keep_sources }

Flatten[ss \in Seq(Seq(AllPoolFiles))] ==
    IF ss = <<>> THEN <<>> ELSE Head(ss) \o Flatten[Tail(ss)]

\* a removal loop that visits no record

\* the names passed to tree.remove, in the order of the two loops
RemoveNames(keep_sources, remove_sources) ==
    LET namesOf(source) ==
            SelectSeq([ k \in DOMAIN files(source) |-> files(source)[k][2] ],
                      LAMBDA name : name \notin KeepFiles(keep_sources))
    IN  Flatten[[ i \in DOMAIN remove_sources |-> namesOf(remove_sources[i]) ]]

\* tree.remove of each name in turn: an absent path is left alone, a path
\* whose unlink fails raises and ends the loop
RemoveRun[names \in Seq(AllPoolFiles), disk \in SUBSET AllPoolFiles, failing \in SUBSET AllPoolFiles] ==
    IF names = <<>> THEN [ files |-> disk, raised |-> FALSE ]
    ELSE IF Head(names) \in disk /\ Head(names) \in failing
         THEN [ files |-> disk, raised |-> TRUE ]
    ELSE RemoveRun[Tail(names), disk \ { Head(names) }, failing]

\* pool_sources_already_updated: Sources exists and no entry of the
\* directory is newer than it
pool_sources_already_updated(index, newerEntries) ==
    index.exists /\ newerEntries = {}

\* apt-ftparchive sources: one paragraph per .dsc in the directory
AptFtparchive(disk) ==
    SelectSeq(PoolUniverse, LAMBDA r : DscOf(r) \in disk)

\* expire_sources(distro, package, keep_sources, remove_sources), with
\* update_pool_sources at its end; failing: the names whose unlink fails
\* with an error other than ENOENT
ExpireSources(keep_sources, remove_sources, failing) ==
    \E names \in { RemoveNames(keep_sources, remove_sources) } :
    \E run \in { RemoveRun[names, poolFiles, failing] } :
    LET deleted == poolFiles \ run.files
        newer1  == (newer \ deleted) \cup (IF deleted = {} THEN {} ELSE { "." })
        need_update == names # <<>>
        regen   == /\ ~run.raised
                   /\ need_update
                   /\ ~pool_sources_already_updated(sourcesFile, newer1)
    IN  /\ poolFiles' = run.files
        /\ raised' = run.raised
        /\ regenerated' = regen
        /\ sourcesFile' = IF regen THEN IndexOf(AptFtparchive(run.files))
                          ELSE sourcesFile
        /\ newer' = IF regen THEN {} ELSE newer1
        /\ filesBefore' = poolFiles
        /\ indexBefore' = sourcesFile
        /\ lastKeep' = keep_sources
        /\ lastRemove' = remove_sources

\* get_pool_sources on a directory without Sources, had it read every
\* record the directory could hold instead of raising
get_pool_sources_listing(index) ==
    [ raises |-> FALSE,
      paras  |-> IF index.exists THEN index.paras ELSE PoolUniverse ]

\* get_pool_sources(distro, package): open() raises IOError when the
\* directory has no Sources file, else the paragraphs of the file
get_pool_sources(index) ==
    IF index.exists THEN [ raises |-> FALSE, paras |-> index.paras ]
    ELSE [ raises |-> TRUE, paras |-> << >> ]

\* the outcomes of unlink: no failure, or one file that cannot be removed
FailingChoices(disk) == { {} } \cup { { f } : f \in disk }

\* expire_pool_sources(distro, package, base) for base = get_base(source),
\* as main calls it for a source of the destination archive
ExpirePoolSourcesCall ==
    /\ call = "none"
    /\ call' = "expire_pool_sources"
    /\ \E source \in OurSources, failing \in FailingChoices(poolFiles) :
       \E base \in { get_base(source) } :
          /\ lastBase' = base
          /\ \E pool_sources \in { get_pool_sources(sourcesFile) } :
             IF pool_sources.raises
             THEN \* except IOError: return
                  /\ filesBefore' = poolFiles
                  /\ indexBefore' = sourcesFile
                  /\ UNCHANGED << sourcesFile, poolFiles, newer, lastKeep,
                                  lastRemove, raised, regenerated >>
             ELSE \E part \in { ExpirePartition(pool_sources.paras, base) } :
                      ExpireSources(part.keep, part.remove, failing)

\* expire_sources called with any split of the pool's records into
\* keep_sources and remove_sources
ExpireSourcesCall ==
    /\ call = "none"
    /\ sourcesFile.exists
    /\ call' = "expire_sources"
    /\ \E K \in SUBSET Range(sourcesFile.paras), failing \in FailingChoices(poolFiles) :
       \E keep \in { SelectSeq(sourcesFile.paras, LAMBDA r : r \in K) } :
       \E remove \in { SelectSeq(sourcesFile.paras, LAMBDA r : r \notin K) } :
          ExpireSources(keep, remove, failing)
    /\ UNCHANGED lastBase

\* the pool records main hands to expire_sources as remove_sources for a
\* package without a reference version: those whose version is not declared
PeerRemove_none(pool_sources, distro_versions) == << >>
PeerRemove(pool_sources, distro_versions) ==
    SelectSeq(pool_sources, LAMBDA r : r.Version \notin distro_versions)

\* main, for a package that the destination archive does not declare:
\* distro_sources[package] are the records its own archive declares
ExpirePeerCall ==
    /\ call = "none"
    /\ call' = "peer"
    /\ \E D \in (SUBSET Range(PoolUniverse)) \ { {} }, failing \in FailingChoices(poolFiles) :
       \E declared \in { SelectSeq(PoolUniverse, LAMBDA r : r \in D) } :
       \E pool_sources \in { get_pool_sources(sourcesFile) } :
          IF pool_sources.raises
          THEN \* except IOError: pass
               /\ filesBefore' = poolFiles
               /\ indexBefore' = sourcesFile
               /\ lastKeep' = declared
               /\ UNCHANGED << sourcesFile, poolFiles, newer, lastRemove,
                               raised, regenerated >>
          ELSE \E remove \in { version_sort(PeerRemove(pool_sources.paras,
                                   { r.Version : r \in D })) } :
                   ExpireSources(declared, remove, failing)
    /\ UNCHANGED lastBase

ExpireInit ==
    /\ sourcesFile \in { NoFile } \cup
                       { IndexOf(s) : s \in SeqsOver(Range(PoolUniverse), MaxIndex) }
    /\ \E extra \in SUBSET (Range(PoolUniverse) \ Range(sourcesFile.paras)) :
          /\ Cardinality(extra) <= MaxExtra
          /\ poolFiles = UNION { FileNames(r) :
                                   r \in Range(sourcesFile.paras) \cup extra }
          /\ newer = IF ~sourcesFile.exists \/ extra = {} THEN {}
                     ELSE { DscOf(r) : r \in extra } \cup { "." }
    /\ lastBase = <<>>
    /\ call = "none"
    /\ filesBefore = {}
    /\ indexBefore = NoFile
    /\ lastKeep = <<>>
    /\ lastRemove = <<>>
    /\ raised = FALSE
    /\ regenerated = FALSE

\* expire-pool.py is not running
ExpireIdle ==
    /\ sourcesFile = NoFile
    /\ poolFiles = {}
    /\ newer = {}
    /\ lastBase = <<>>
    /\ call = "none"
    /\ filesBefore = {}
    /\ indexBefore = NoFile
    /\ lastKeep = <<>>
    /\ lastRemove = <<>>
    /\ raised = FALSE
    /\ regenerated = FALSE

(***************************************************************************)
(* update-pool.py: main, update_sources, update_pool and the worker pool.  *)
(***************************************************************************)
\* (distro, dist, component) triples of a run, numbered in loop order
NumPairs == 2
\* worker processes of multiprocessing.Pool (--jobs)
Jobs == 2
\* runs of update-pool in a row
MaxRuns == 2

RecBar ==
    [ Package |-> "bar", Version |-> V_1_0_1, Directory |-> "pool/main/b/bar",
      Files |-> << Entry("m9", "bar_1.0-1.dsc") >> ]
RecBaz ==
    [ Package |-> "baz", Version |-> V_1_1_1, Directory |-> "pool/main/b/baz",
      Files |-> << Entry("m10", "baz_1.1-1.dsc") >> ]

\* the Sources of each triple as the mirror publishes it
PlainIndex == [ p \in 1..NumPairs |-> IF p = 1 THEN << Rec121, RecBar >> ELSE << RecBaz >> ]

FetchRecords == { Rec121, RecBar, RecBaz }
FetchFiles == UNION { FileNames(r) : r \in FetchRecords }

\* an index that lists two versions of foo with the same upstream tarball
SharedIndex == [ p \in 1..NumPairs |-> IF p = 1 THEN << Rec121, Rec122, RecBar >> ELSE << RecBaz >> ]

SharedRecords == { Rec121, Rec122, RecBar, RecBaz }
SharedFiles == UNION { FileNames(r) : r \in SharedRecords }

Absent == -1

VARIABLES
    mirrorSize,     \* size of each file as the mirror serves it
    sourcesIndex,   \* the Sources of each triple on the mirror
    packageOption,  \* options.package: not given, or the names given
    blocklist,      \* read_blocklist(): package names
    changesMarked,  \* records whose changes file (or .bz2) exists locally
    fileSize,       \* size of each file under its pool name, or Absent
    run,            \* number of the current run of update-pool
    mainPc,         \* "sources", "map", "done" or "crashed"
    pair,           \* the triple the loops of main are at
    indexState,     \* per triple: "unfetched", "saved" or "missing"
    tasks,          \* the chunks pool.map made of the batch
    result,         \* per chunk: "queued", "running", "ok" or "failed"
    worker,         \* per worker process: its chunk and position in it
    attempted,      \* <<triple, record>> for which update_pool was called
    downloaded,     \* names handed to urlretrieve in this run
    prevClean       \* the run before this one ended without error

fetchVars == << mirrorSize, sourcesIndex, packageOption, blocklist, changesMarked, fileSize, run, mainPc,
                pair, indexState, tasks, result, worker, attempted,
                downloaded, prevClean >>


\* get_sources(distro, dist, component): the paragraphs of the saved index
Declared(p) == sourcesIndex[p]

\* sources_urls: the compression formats tried, in order
SourcesUrls == << "xz", "gz" >>

NoPackageOption == [ given |-> FALSE, names |-> {} ]

\* the records main appends to sources
Eligible_markerIgnored(source) == ~(packageOption.given /\ source.Package \notin packageOption.names) /\ source.Package \notin blocklist
Eligible(source) ==
    /\ ~(packageOption.given /\ source.Package \notin packageOption.names)
    /\ source.Package \notin blocklist
    /\ source \notin changesMarked

\* pool.map: the batch cut into chunks of
\* ceil(len / (4 * processes)) records
ChunkSize(n) ==
    IF n = 0 THEN 0
    ELSE (n \div (Jobs * 4)) + (IF n % (Jobs * 4) = 0 THEN 0 ELSE 1)

Chunks(batch) ==
    LET n  == Len(batch)
        cs == ChunkSize(n)
        count == IF n = 0 THEN 0 ELSE (n + cs - 1) \div cs
    IN  [ k \in 1..count |->
            SubSeq(batch, (k - 1) * cs + 1, IF k * cs < n THEN k * cs ELSE n) ]

IdleWorker == [ task |-> 0, rec |-> 0, file |-> 0, phase |-> "idle" ]

\* update_sources, then the batch of the triple handed to pool.map
MainUpdateSources ==
    /\ mainPc = "sources"
    /\ \E avail \in SUBSET Range(SourcesUrls) :
          IF avail = {}
          THEN \* every urlretrieve failed: raise OSError("No Sources found")
               /\ indexState' = [ indexState EXCEPT ![pair] = "missing" ]
               /\ mainPc' = "crashed"
               /\ UNCHANGED << tasks, result >>
          ELSE /\ indexState' = [ indexState EXCEPT ![pair] = "saved" ]
               /\ mainPc' = "map"
               /\ \E chunks \in { Chunks(SelectSeq(Declared(pair), Eligible)) } :
                     /\ tasks' = chunks
                     /\ result' = [ k \in DOMAIN chunks |-> "queued" ]
    /\ UNCHANGED << mirrorSize, sourcesIndex, packageOption, blocklist, changesMarked, fileSize, run, pair,
                    worker, attempted, downloaded, prevClean, expVars >>

\* an idle worker process takes the next chunk and calls update_pool on
\* its first record
WorkerTake(w) ==
    /\ mainPc = "map"
    /\ worker[w].phase = "idle"
    /\ \E k \in DOMAIN tasks :
          /\ result[k] = "queued"
          /\ \A j \in 1..(k - 1) : result[j] # "queued"
          /\ worker' = [ worker EXCEPT ![w] =
                            [ task |-> k, rec |-> 1, file |-> 1, phase |-> "check" ] ]
          /\ result' = [ result EXCEPT ![k] = "running" ]
          /\ attempted' = attempted \cup { << pair, tasks[k][1] >> }
    /\ UNCHANGED << mirrorSize, sourcesIndex, packageOption, blocklist, changesMarked, fileSize, run, mainPc,
                    pair, indexState, tasks, downloaded, prevClean, expVars >>

CurRecord(w) == tasks[worker[w].task][worker[w].rec]
CurFile(w) == files(CurRecord(w))[worker[w].file]

\* the worker moves past the current file: to the next file, the next
\* record of its chunk, or the end of the chunk
MoveOn(w) ==
    \E cur \in { worker[w] } :
       IF cur.file < Len(files(CurRecord(w)))
       THEN /\ worker' = [ worker EXCEPT ![w] = [ cur EXCEPT !.file = cur.file + 1,
                                                             !.phase = "check" ] ]
            /\ UNCHANGED << result, attempted >>
       ELSE IF cur.rec < Len(tasks[cur.task])
       THEN /\ worker' = [ worker EXCEPT ![w] =
                             [ task |-> cur.task, rec |-> cur.rec + 1,
                               file |-> 1, phase |-> "check" ] ]
            /\ attempted' = attempted \cup { << pair, tasks[cur.task][cur.rec + 1] >> }
            /\ UNCHANGED result
       ELSE /\ worker' = [ worker EXCEPT ![w] = IdleWorker ]
            /\ result' = [ result EXCEPT ![cur.task] = "ok" ]
            /\ UNCHANGED attempted

\* update_pool raises RuntimeError("Download failed"): the rest of the
\* chunk is not run and the chunk's result is the exception
RaiseInWorker(w) ==
    /\ result' = [ result EXCEPT ![worker[w].task] = "failed" ]
    /\ worker' = [ worker EXCEPT ![w] = IdleWorker ]
    /\ UNCHANGED attempted

\* os.path.isfile(filename) and os.path.getsize(filename) == int(size)
AlreadyThere_never(name, size) == FALSE
AlreadyThere(name, size) == fileSize[name] # Absent /\ fileSize[name] = size

\* update_pool at one file: skip it when a local file of the declared size
\* exists, otherwise urlretrieve(url, filename) opens the pool file itself
\* for writing, unless the request fails first
WorkerCheck(w) ==
    /\ mainPc = "map"
    /\ worker[w].phase = "check"
    /\ \E f \in { CurFile(w) } :
          IF AlreadyThere(f[2], f[1])
          THEN /\ MoveOn(w)
               /\ UNCHANGED << fileSize, downloaded >>
          ELSE /\ downloaded' = downloaded \cup { f[2] }
               /\ \E opened \in BOOLEAN :
                     IF opened
                     THEN /\ fileSize' = [ fileSize EXCEPT ![f[2]] = 0 ]
                          /\ worker' = [ worker EXCEPT ![w].phase = "transfer" ]
                          /\ UNCHANGED << result, attempted >>
                     ELSE /\ RaiseInWorker(w)
                          /\ UNCHANGED fileSize
    /\ UNCHANGED << mirrorSize, sourcesIndex, packageOption, blocklist, changesMarked, run, mainPc, pair,
                    indexState, tasks, prevClean, expVars >>

\* urlretrieve copying into the pool file: it ends with the whole content,
\* or fails part-way and leaves what it wrote
WorkerTransfer(w) ==
    /\ mainPc = "map"
    /\ worker[w].phase = "transfer"
    /\ \E f \in { CurFile(w) } :
          \/ /\ fileSize' = [ fileSize EXCEPT ![f[2]] = mirrorSize[f[2]] ]
             /\ MoveOn(w)
          \/ /\ \E k \in 0..(mirrorSize[f[2]] - 1) :
                    fileSize' = [ fileSize EXCEPT ![f[2]] = k ]
             /\ RaiseInWorker(w)
    /\ UNCHANGED << mirrorSize, sourcesIndex, packageOption, blocklist, changesMarked, run, mainPc, pair,
                    indexState, tasks, downloaded, prevClean, expVars >>

\* pool.map returns once every chunk has a result: it re-raises the first
\* exception in main, which nothing catches; otherwise the loops go on
MapDone_first == \E k \in DOMAIN tasks : result[k] \in { "ok", "failed" }
MapDone == \A k \in DOMAIN tasks : result[k] \in { "ok", "failed" }

MapReturn ==
    /\ mainPc = "map"
    /\ MapDone
    /\ IF \E k \in DOMAIN tasks : result[k] = "failed"
       THEN mainPc' = "crashed" /\ UNCHANGED pair
       ELSE IF pair < NumPairs
       THEN mainPc' = "sources" /\ pair' = pair + 1
       ELSE mainPc' = "done" /\ UNCHANGED pair
    /\ tasks' = << >>
    /\ result' = << >>
    /\ UNCHANGED << mirrorSize, sourcesIndex, packageOption, blocklist, changesMarked, fileSize, run,
                    indexState, worker, attempted, downloaded, prevClean,
                    expVars >>

\* the scheduler starts update-pool again; runs past MaxRuns are counted
\* as the last one
RunAgain ==
    /\ mainPc \in { "done", "crashed" }
    /\ run' = IF run < MaxRuns THEN run + 1 ELSE run
    /\ prevClean' = (mainPc = "done")
    /\ mainPc' = "sources"
    /\ pair' = 1
    /\ indexState' = [ p \in 1..NumPairs |-> "unfetched" ]
    /\ attempted' = {}
    /\ downloaded' = {}
    /\ UNCHANGED << mirrorSize, sourcesIndex, packageOption, blocklist, changesMarked, fileSize, tasks,
                    result, worker, expVars >>

\* the mirror serves every file with its declared size, or one file with
\* another size than the index declares
MirrorChoices ==
    { [ f \in FetchFiles |-> DeclSize ] } \cup
    { [ f \in FetchFiles |-> IF f = g THEN DeclSize + 1 ELSE DeclSize ] :
        g \in FetchFiles }

FetchInit ==
    /\ mirrorSize \in MirrorChoices
    /\ sourcesIndex = PlainIndex
    /\ packageOption \in { NoPackageOption, [ given |-> TRUE, names |-> { "foo", "baz" } ] }
    /\ blocklist \in { {}, { "bar" } }
    /\ changesMarked \in { {}, { RecBaz } }
    /\ fileSize = [ f \in FetchFiles |-> Absent ]
    /\ run = 1
    /\ mainPc = "sources"
    /\ pair = 1
    /\ indexState = [ p \in 1..NumPairs |-> "unfetched" ]
    /\ tasks = << >>
    /\ result = << >>
    /\ worker = [ w \in 1..Jobs |-> IdleWorker ]
    /\ attempted = {}
    /\ downloaded = {}
    /\ prevClean = FALSE

\* update-pool.py is not running
\* a run on the index with the shared tarball, the mirror serving every
\* file with its declared size
FetchSharedInit ==
    /\ mirrorSize = [ f \in SharedFiles |-> DeclSize ]
    /\ sourcesIndex = SharedIndex
    /\ packageOption = NoPackageOption
    /\ blocklist = {}
    /\ changesMarked \in { {}, { Rec121 } }
    /\ fileSize \in { [ f \in SharedFiles |-> Absent ],
                       [ f \in SharedFiles |-> IF f \in FileNames(Rec121) THEN DeclSize ELSE Absent ] }
    /\ run = 1
    /\ mainPc = "sources"
    /\ pair = 1
    /\ indexState = [ p \in 1..NumPairs |-> "unfetched" ]
    /\ tasks = << >>
    /\ result = << >>
    /\ worker = [ w \in 1..Jobs |-> IdleWorker ]
    /\ attempted = {}
    /\ downloaded = {}
    /\ prevClean = FALSE

FetchIdle ==
    /\ mirrorSize = [ f \in FetchFiles |-> DeclSize ]
    /\ sourcesIndex = << >>
    /\ packageOption = NoPackageOption
    /\ blocklist = {}
    /\ changesMarked = {}
    /\ fileSize = [ f \in FetchFiles |-> Absent ]
    /\ run = 0
    /\ mainPc = "idle"
    /\ pair = 0
    /\ indexState = << >>
    /\ tasks = << >>
    /\ result = << >>
    /\ worker = << >>
    /\ attempted = {}
    /\ downloaded = {}
    /\ prevClean = FALSE

(***************************************************************************)
(* app/util/tree.py: AtomicFile, with one writer at a time on a target     *)
(* and a reader of the target path.  A name of the directory leads to an   *)
(* inode; an inode holds the chunks written to it and the number of the    *)
(* write that filled it.                                                   *)
(***************************************************************************)
\* chunks of a whole content
FullLen == 2
\* writes through AtomicFile in a row
MaxWrites == 3

TargetName == "Sources"
NoInode == 0

VARIABLES
    dirents,        \* directory: path -> inode number, or NoInode
    inode,        \* inode number -> [gen, chunks]
    writerPc,     \* "idle" or "body" (inside the with block)
    writerFd,     \* inode the writer's descriptor is open on
    writes,       \* number of with blocks entered so far
    outcome,      \* how the last with block ended
    targetBefore, \* inode and content of the target when the block began
    committed,    \* writes that ended with the rename
    readerPc,     \* "idle" or "open"
    readerFd,     \* inode the reader's descriptor is open on
    lastRead      \* content the reader got, as a set of at most one

atomVars == << dirents, inode, writerPc, writerFd, writes, outcome,
               targetBefore, committed, readerPc, readerFd, lastRead >>

\* "%s.new" % self.filename
NewName_same(filename) == filename
NewName(filename) == filename \o ".new"

\* os.rename on exit only when the block did not raise
RenameOnExit(exc_type) == exc_type = "None"

Paths == { TargetName, TargetName \o ".new" }
Complete(content) == content.chunks = FullLen
ContentAt(path) == IF dirents[path] = NoInode THEN {} ELSE { inode[dirents[path]] }

\* __enter__: open("%s.new" % filename, "wb") creates the file or
\* truncates the one already there
AtomicEnter ==
    /\ writerPc = "idle"
    /\ writes < MaxWrites
    /\ writes' = writes + 1
    /\ \E path \in { NewName(TargetName) } :
       \E id \in { IF dirents[path] = NoInode THEN writes + 1 ELSE dirents[path] } :
          /\ dirents' = [ dirents EXCEPT ![path] = id ]
          /\ inode' = [ inode EXCEPT ![id] = [ gen |-> writes + 1, chunks |-> 0 ] ]
          /\ writerFd' = id
    /\ writerPc' = "body"
    /\ outcome' = "open"
    /\ targetBefore' = << dirents[TargetName], ContentAt(TargetName) >>
    /\ UNCHANGED << committed, readerPc, readerFd, lastRead >>

\* the block writes the next chunk to the descriptor
WriteChunk ==
    /\ writerPc = "body"
    /\ inode[writerFd].chunks < FullLen
    /\ inode' = [ inode EXCEPT ![writerFd].chunks = @ + 1 ]
    /\ UNCHANGED << dirents, writerPc, writerFd, writes, outcome, targetBefore,
                    committed, readerPc, readerFd, lastRead >>

\* __exit__: the block ended after its last write (exc_type None) or
\* raised anywhere; close, then rename unless it raised
AtomicExit ==
    /\ writerPc = "body"
    /\ \E exc_type \in { "None", "Exception" } :
          /\ exc_type = "None" => Complete(inode[writerFd])
          /\ IF RenameOnExit(exc_type)
             THEN \E src \in { NewName(TargetName) } :
                     /\ dirents' = IF src = TargetName THEN dirents
                                 ELSE [ dirents EXCEPT ![TargetName] = dirents[src],
                                                     ![src] = NoInode ]
                     /\ committed' = committed \cup { writes }
             ELSE UNCHANGED << dirents, committed >>
          /\ outcome' = IF exc_type = "None" THEN "renamed" ELSE "raised"
    /\ writerPc' = "idle"
    /\ writerFd' = NoInode
    /\ UNCHANGED << inode, writes, targetBefore, readerPc, readerFd, lastRead >>

\* the writing process is killed inside the block: __exit__ never runs
WriterKilled ==
    /\ writerPc = "body"
    /\ writerPc' = "idle"
    /\ writerFd' = NoInode
    /\ outcome' = "killed"
    /\ UNCHANGED << dirents, inode, writes, targetBefore, committed, readerPc,
                    readerFd, lastRead >>

\* a reader opens the target path
ReaderOpen ==
    /\ readerPc = "idle"
    /\ dirents[TargetName] # NoInode
    /\ readerPc' = "open"
    /\ readerFd' = dirents[TargetName]
    /\ lastRead' = {}
    /\ UNCHANGED << dirents, inode, writerPc, writerFd, writes, outcome,
                    targetBefore, committed >>

\* the reader reads what its descriptor holds and closes it
ReaderRead ==
    /\ readerPc = "open"
    /\ lastRead' = { inode[readerFd] }
    /\ readerPc' = "idle"
    /\ readerFd' = NoInode
    /\ UNCHANGED << dirents, inode, writerPc, writerFd, writes, outcome,
                    targetBefore, committed >>

AtomicInit ==
    /\ \E present \in BOOLEAN :
          dirents = [ p \in Paths |-> IF p = TargetName /\ present THEN MaxWrites + 1
                                    ELSE NoInode ]
    /\ inode = [ id \in 1..(MaxWrites + 1) |->
                   [ gen |-> 0, chunks |-> IF id = MaxWrites + 1 THEN FullLen ELSE 0 ] ]
    /\ writerPc = "idle"
    /\ writerFd = NoInode
    /\ writes = 0
    /\ outcome = "none"
    /\ targetBefore = << NoInode, {} >>
    /\ committed = {}
    /\ readerPc = "idle"
    /\ readerFd = NoInode
    /\ lastRead = {}

\* no AtomicFile in use
AtomicIdle ==
    /\ dirents = << >>
    /\ inode = << >>
    /\ writerPc = "none"
    /\ writerFd = NoInode
    /\ writes = 0
    /\ outcome = "none"
    /\ targetBefore = << NoInode, {} >>
    /\ committed = {}
    /\ readerPc = "none"
    /\ readerFd = NoInode
    /\ lastRead = {}

(***************************************************************************)
(* get_base applied to version strings and to its own result.              *)
(***************************************************************************)
\* suffixes put after a stem to make the version strings handed to get_base
MaxSuffixes == 2

Stems ==
    { << "1", ".", "0", "-", "1" >>, << "1", ".", "0", "-" >>, << "2", ".", "0" >> }

SuffixPieces ==
    { Append(SufBuild, "1"), Append(SufUbuntu, "1"), SufBuild, SufUbuntu }

VARIABLES
    gbVersion,   \* source["Version"] of the call
    gbSuffixes,  \* number of suffixes after the stem
    gbStage,     \* "input", "once" or "twice"
    gbOnce,      \* get_base(source)
    gbTwice      \* get_base of a source whose version is gbOnce

baseVars == << gbVersion, gbSuffixes, gbStage, gbOnce, gbTwice >>

\* one more suffix on the version string
AppendSuffix ==
    /\ gbStage = "input"
    /\ gbSuffixes < MaxSuffixes
    /\ \E piece \in SuffixPieces : gbVersion' = gbVersion \o piece
    /\ gbSuffixes' = gbSuffixes + 1
    /\ UNCHANGED << gbStage, gbOnce, gbTwice >>

CallGetBase ==
    /\ gbStage = "input"
    /\ gbOnce' = get_base([ Version |-> gbVersion ])
    /\ gbStage' = "once"
    /\ UNCHANGED << gbVersion, gbSuffixes, gbTwice >>

CallGetBaseAgain ==
    /\ gbStage = "once"
    /\ gbTwice' = get_base([ Version |-> gbOnce ])
    /\ gbStage' = "twice"
    /\ UNCHANGED << gbVersion, gbSuffixes, gbOnce >>

BaseInit ==
    /\ gbVersion \in Stems
    /\ gbSuffixes = 0
    /\ gbStage = "input"
    /\ gbOnce = << >>
    /\ gbTwice = << >>

\* get_base is not being exercised
BaseIdle ==
    /\ gbVersion = << >>
    /\ gbSuffixes = 0
    /\ gbStage = "none"
    /\ gbOnce = << >>
    /\ gbTwice = << >>

(***************************************************************************)
(* expire-pool.py: main, over the packages and archives of a run.  The     *)
(* expiry of one package in one archive is one call that completes or      *)
(* raises; what it does to the files is in the actions above.              *)
(***************************************************************************)
OUR_DISTRO == "ubuntu"

\* DISTROS[distro]["expire"], in the order of get_pool_distros()
DistroList == << "ubuntu", "debian" >>
\* the values the "expire" entries of DISTROS can be given
ExpireFlags == [ Range(DistroList) -> BOOLEAN ]

\* package names, in sorted order
PackageOrder == << "bar", "foo" >>
PkgSeq(S) == SelectSeq(PackageOrder, LAMBDA p : p \in S)

VARIABLES
    emExpire,      \* the "expire" entry of each distro of DISTROS
    emOption,      \* options.package: not given, or the names given
    emDistros,     \* distros: args, or every distro
    ourDeclared,   \* packages in the Sources of the destination archive
    peerDeclared,  \* packages in the Sources of debian
    emDirs,        \* <<distro, package>> whose pool directory exists
    emDirsBefore,  \* the pool directories when the run began
    emPc,          \* "ours", "peer", "glob", "done" or "crashed"
    emSrc,         \* position in the sources of the destination archive
    emDistro,      \* position in distros of the second loop
    emPkg,         \* position in sorted(distro_sources)
    emPending,     \* pool directories the glob has yet to yield
    our_sources,   \* the set main collects in its first loop
    emExpired,     \* <<distro, package>> whose expiry call returned
    emFailed,      \* <<distro, package>> whose expiry call raised
    emRemoved      \* pool directories removed by tree.remove

expireMainVars == << emExpire, emOption, emDistros, ourDeclared, peerDeclared, emDirs,
                     emDirsBefore, emPc, emSrc, emDistro, emPkg, emPending,
                     our_sources, emExpired, emFailed, emRemoved >>

\* DISTROS[distro]["expire"]
DistroExpire == emExpire

\* distro_sources of a distro: the destination archive has one dist, so
\* its distro_sources are the records of the first loop
DistroDeclared(distro) ==
    IF distro = OUR_DISTRO THEN ourDeclared ELSE peerDeclared

\* options.package is not None and package not in options.package
OptionSkips(package) == emOption.given /\ package \notin emOption.names

\* the first loop of main at one source of the destination archive:
\* expire_pool_sources for every distro, until one call raises
OurSourceStep ==
    /\ emPc = "ours"
    /\ emSrc <= Len(PkgSeq(ourDeclared))
    /\ \E package \in { PkgSeq(ourDeclared)[emSrc] } :
          /\ our_sources' = our_sources \cup { package }
          /\ IF OptionSkips(package)
             THEN /\ emSrc' = emSrc + 1
                  /\ UNCHANGED << emPc, emExpired, emFailed >>
             ELSE \E targets \in { SelectSeq(emDistros, LAMBDA d : DistroExpire[d]) } :
                  \E failAt \in 0..Len(targets) :
                     /\ failAt > 0 => << targets[failAt], package >> \in emDirs
                     /\ emExpired' = emExpired \cup
                           { << targets[k], package >> :
                               k \in 1..(IF failAt = 0 THEN Len(targets) ELSE failAt - 1) }
                     /\ IF failAt = 0
                        THEN /\ emSrc' = emSrc + 1
                             /\ UNCHANGED << emPc, emFailed >>
                        ELSE /\ emPc' = "crashed"
                             /\ emFailed' = emFailed \cup { << targets[failAt], package >> }
                             /\ UNCHANGED emSrc
    /\ UNCHANGED << emExpire, emOption, emDistros, ourDeclared, peerDeclared, emDirs,
                    emDirsBefore, emDistro, emPkg, emPending, emRemoved >>

\* the second loop without its test of the "expire" entry
PeerSeq_flagIgnored(distro) ==
    IF distro = OUR_DISTRO THEN << >> ELSE PkgSeq(DistroDeclared(distro))

\* sorted(distro_sources) of the second loop; the loop over them is not
\* entered for the destination archive, nor is the body of the second
\* loop for a distro that is not to be expired
PeerSeq(distro) ==
    IF distro = OUR_DISTRO \/ ~DistroExpire[distro] THEN << >>
    ELSE PkgSeq(DistroDeclared(distro))

\* the second loop at one package of a distro: expire_sources unless the
\* destination archive has the package
PeerStep ==
    /\ emPc = "peer"
    /\ emPkg <= Len(PeerSeq(emDistros[emDistro]))
    /\ \E distro \in { emDistros[emDistro] } :
       \E package \in { PeerSeq(distro)[emPkg] } :
          IF package \in our_sources \/ OptionSkips(package)
          THEN /\ emPkg' = emPkg + 1
               /\ UNCHANGED << emPc, emExpired, emFailed >>
          ELSE \E fails \in BOOLEAN :
                  /\ fails => << distro, package >> \in emDirs
                  /\ IF fails
                     THEN /\ emPc' = "crashed"
                          /\ emFailed' = emFailed \cup { << distro, package >> }
                          /\ UNCHANGED << emPkg, emExpired >>
                     ELSE /\ emPkg' = emPkg + 1
                          /\ emExpired' = emExpired \cup { << distro, package >> }
                          /\ UNCHANGED << emPc, emFailed >>
    /\ UNCHANGED << emExpire, emOption, emDistros, ourDeclared, peerDeclared, emDirs,
                    emDirsBefore, emSrc, emDistro, emPending, our_sources,
                    emRemoved >>

\* the condition under which main removes a pool directory
Obsolete_anyArchive(distro, name) ==
    name \notin our_sources /\ name \notin peerDeclared
Obsolete(distro, name) ==
    name \notin our_sources /\ name \notin DistroDeclared(distro)

\* the glob loop at one pool directory of the distro
GlobStep ==
    /\ emPc = "glob"
    /\ \E pooldir \in emPending :
          /\ emPending' = emPending \ { pooldir }
          /\ IF ~OptionSkips(pooldir[2]) /\ Obsolete(pooldir[1], pooldir[2])
             THEN \E fails \in BOOLEAN :
                     IF fails
                     THEN \* tree.remove raises
                          /\ emPc' = "crashed"
                          /\ UNCHANGED << emDirs, emRemoved >>
                     ELSE /\ emDirs' = emDirs \ { pooldir }
                          /\ emRemoved' = emRemoved \cup { pooldir }
                          /\ UNCHANGED emPc
             ELSE UNCHANGED << emPc, emDirs, emRemoved >>
    /\ UNCHANGED << emExpire, emOption, emDistros, ourDeclared, peerDeclared,
                    emDirsBefore, emSrc, emDistro, emPkg, our_sources,
                    emExpired, emFailed >>

\* a for loop of main is exhausted: on to the next one
LoopExit ==
    /\ \/ /\ emPc = "ours"
          /\ emSrc > Len(PkgSeq(ourDeclared))
          /\ emPc' = "peer"
          /\ UNCHANGED << emDistro, emPkg, emPending >>
       \/ /\ emPc = "peer"
          /\ emPkg > Len(PeerSeq(emDistros[emDistro]))
          /\ emPc' = "glob"
          /\ emPending' = { d \in emDirs : /\ d[1] = emDistros[emDistro]
                                             /\ DistroExpire[d[1]] }
          /\ UNCHANGED << emDistro, emPkg >>
       \/ /\ emPc = "glob"
          /\ emPending = {}
          /\ IF emDistro < Len(emDistros)
             THEN emPc' = "peer" /\ emDistro' = emDistro + 1 /\ emPkg' = 1
             ELSE emPc' = "done" /\ UNCHANGED << emDistro, emPkg >>
          /\ UNCHANGED emPending
    /\ UNCHANGED << emExpire, emOption, emDistros, ourDeclared, peerDeclared, emDirs,
                    emDirsBefore, emSrc, our_sources, emExpired, emFailed,
                    emRemoved >>

ExpireMainInit ==
    /\ emExpire \in ExpireFlags
    /\ emOption \in { NoPackageOption, [ given |-> TRUE, names |-> { "foo" } ] }
    /\ emDistros \in { DistroList, << "debian" >> }
    /\ ourDeclared \in SUBSET Range(PackageOrder)
    /\ peerDeclared \in SUBSET Range(PackageOrder)
    /\ emDirs \in SUBSET (Range(DistroList) \X Range(PackageOrder))
    /\ emDirsBefore = emDirs
    /\ emPc = "ours"
    /\ emSrc = 1
    /\ emDistro = 1
    /\ emPkg = 1
    /\ emPending = {}
    /\ our_sources = {}
    /\ emExpired = {}
    /\ emFailed = {}
    /\ emRemoved = {}

\* main of expire-pool.py is not running
ExpireMainIdle ==
    /\ emExpire = [ d \in Range(DistroList) |-> TRUE ]
    /\ emOption = NoPackageOption
    /\ emDistros = << >>
    /\ ourDeclared = {}
    /\ peerDeclared = {}
    /\ emDirs = {}
    /\ emDirsBefore = {}
    /\ emPc = "idle"
    /\ emSrc = 0
    /\ emDistro = 0
    /\ emPkg = 0
    /\ emPending = {}
    /\ our_sources = {}
    /\ emExpired = {}
    /\ emFailed = {}
    /\ emRemoved = {}

(***************************************************************************)
(* check-pool.py: main, check_source and download_source.  A file is       *)
(* <<directory, name, content>>; a directory is the pool directory of a    *)
(* package or a directory made by mkdtemp.                                 *)
(***************************************************************************)
\* hexdigest of a content under one algorithm
Digest(hashname, content) == << hashname, content >>

\* what the archive published under a name
PublishedContent(name) == << name, "published" >>

\* an index entry carrying the digest of a content
CkEntry(hashname, content, name) == << Digest(hashname, content), DeclSize, name >>

\* the fields check_source goes through, with the algorithm of each
CheckFields ==
    << << "Checksums-Sha512", "SHA-512" >>, << "Checksums-Sha256", "SHA-256" >>,
       << "Checksums-Sha1", "SHA-1" >>, << "Files", "MD5" >> >>

\* a paragraph with two checksum fields that agree
CkRecBoth ==
    ( "Package" :> "foo" @@ "Version" :> V_1_2_1 @@
      "Checksums-Sha256" :>
          << CkEntry("SHA-256", PublishedContent("foo_1.2-1.dsc"), "foo_1.2-1.dsc"),
             CkEntry("SHA-256", PublishedContent("foo_1.2.orig.tar.gz"), "foo_1.2.orig.tar.gz") >> @@
      "Files" :>
          << CkEntry("MD5", PublishedContent("foo_1.2-1.dsc"), "foo_1.2-1.dsc"),
             CkEntry("MD5", PublishedContent("foo_1.2.orig.tar.gz"), "foo_1.2.orig.tar.gz") >> )
\* a paragraph whose Files field carries another digest than its
\* Checksums-Sha256 field stands for
CkRecWeakStale ==
    ( "Package" :> "foo" @@ "Version" :> V_1_2_2 @@
      "Checksums-Sha256" :>
          << CkEntry("SHA-256", PublishedContent("foo_1.2-2.dsc"), "foo_1.2-2.dsc") >> @@
      "Files" :>
          << CkEntry("MD5", << "foo_1.2-2.dsc", "stale" >>, "foo_1.2-2.dsc") >> )
\* a paragraph with the Files field only
CkRecFilesOnly ==
    ( "Package" :> "bar" @@ "Version" :> V_1_0_1 @@
      "Files" :>
          << CkEntry("MD5", PublishedContent("bar_1.0-1.dsc"), "bar_1.0-1.dsc") >> )

\* the packages of the sources main goes through
CkDeclared == << "foo", "bar" >>

\* the entries check_source compares, in order: those of every field of
\* CheckFields that the paragraph has
VerifyList_strongest(source) ==
    LET present == { i \in DOMAIN CheckFields : CheckFields[i][1] \in DOMAIN source }
        first   == CHOOSE i \in present : \A j \in present : i <= j
    IN  [ k \in DOMAIN source[CheckFields[first][1]] |->
            << CheckFields[first][2], source[CheckFields[first][1]][k] >> ]
VerifyList(source) ==
    LET of(i) == IF CheckFields[i][1] \in DOMAIN source
                 THEN [ k \in DOMAIN source[CheckFields[i][1]] |->
                          << CheckFields[i][2], source[CheckFields[i][1]][k] >> ]
                 ELSE << >>
    IN  of(1) \o of(2) \o of(3) \o of(4)

\* os.path.join(targetdir, name) of download_source
DownloadTarget_pool(targetdir, source, name) == << << "pool", source.Package >>, name >>
DownloadTarget(targetdir, source, name) == << targetdir, name >>

\* the finally clause of check_source runs whatever was raised
CleanupRuns_onSuccess(exc) == exc = "None"
CleanupRuns(exc) == TRUE

VARIABLES
    ckIndex,     \* package -> its pool Sources file
    ckFs,        \* the files: <<directory, name, content>>
    ckDirs,      \* the directories mkdtemp made that still exist
    ckPoolBefore,\* the files of the pool when the run began
    ckPc,        \* "main", "download", "verify", "finally" or "done"
    ckSrc,       \* position of main in the sources
    ckEnt,       \* position of main in the pool paragraphs of the package
    ckPos,       \* position in files(source) or in the entries to compare
    ckExc,       \* the exception check_source is leaving with, or "None"
    ckGot,       \* <<source, entry, name, content>> of the downloads
    ckOutcomes,  \* <<source, entry, outcome>> of the calls that ended
    ckLog        \* <<source, entry, message>> logged as warnings

checkVars == << ckIndex, ckFs, ckDirs, ckPoolBefore, ckPc, ckSrc, ckEnt, ckPos,
                ckExc, ckGot, ckOutcomes, ckLog >>

PoolFilesOf(fs) == { f \in fs : f[1][1] = "pool" }
CkTdir == << "tmp", ckSrc, ckEnt >>
CkRecord == ckIndex[CkDeclared[ckSrc]].paras[ckEnt]

\* main between two calls of check_source: the loops move to the next
\* source when the package has no pool Sources (IOError) or no paragraph
\* left, and main returns after the last source
CkNextSource ==
    /\ ckPc = "main"
    /\ IF ckSrc > Len(CkDeclared)
       THEN ckPc' = "done" /\ UNCHANGED << ckSrc, ckEnt >>
       ELSE /\ \/ ~ckIndex[CkDeclared[ckSrc]].exists
               \/ ckEnt > Len(ckIndex[CkDeclared[ckSrc]].paras)
            /\ ckSrc' = ckSrc + 1
            /\ ckEnt' = 1
            /\ UNCHANGED ckPc
    /\ UNCHANGED << ckIndex, ckFs, ckDirs, ckPoolBefore, ckPos, ckExc, ckGot,
                    ckOutcomes, ckLog >>

\* check_source begins: tempfile.mkdtemp()
CkBegin ==
    /\ ckPc = "main"
    /\ ckSrc <= Len(CkDeclared)
    /\ ckIndex[CkDeclared[ckSrc]].exists
    /\ ckEnt <= Len(ckIndex[CkDeclared[ckSrc]].paras)
    /\ ckDirs' = ckDirs \cup { CkTdir }
    /\ ckPc' = "download"
    /\ ckPos' = 1
    /\ ckExc' = "None"
    /\ UNCHANGED << ckIndex, ckFs, ckPoolBefore, ckSrc, ckEnt, ckGot,
                    ckOutcomes, ckLog >>

\* download_source at one file: urlopen fails, the copy is cut, or the
\* file is saved with the published content or with another one
CkDownload ==
    /\ ckPc = "download"
    /\ \E file \in { files(CkRecord)[ckPos] } :
       \E path \in { DownloadTarget(CkTdir, CkRecord, file[2]) } :
       \E got \in { "noopen", "cut", "published", "other" } :
          /\ ckFs' = IF got = "noopen" THEN ckFs
                     ELSE { f \in ckFs : << f[1], f[2] >> # path }
                          \cup { << path[1], path[2], << file[2], got >> >> }
          /\ IF got \in { "noopen", "cut" }
             THEN /\ ckLog' = ckLog \cup { << ckSrc, ckEnt, "Downloading failed" >> }
                  /\ ckExc' = "IOError"
                  /\ ckPc' = "finally"
                  /\ UNCHANGED << ckPos, ckGot >>
             ELSE /\ ckGot' = ckGot \cup { << ckSrc, ckEnt, file[2], << file[2], got >> >> }
                  /\ IF ckPos < Len(files(CkRecord))
                     THEN ckPos' = ckPos + 1 /\ UNCHANGED ckPc
                     ELSE ckPos' = 1 /\ ckPc' = "verify"
                  /\ UNCHANGED << ckExc, ckLog >>
    /\ UNCHANGED << ckIndex, ckDirs, ckPoolBefore, ckSrc, ckEnt, ckOutcomes >>

\* check_source at one entry of a checksum field: open the file in the
\* temporary directory, hash it and compare
CkVerify ==
    /\ ckPc = "verify"
    /\ \E todo \in { VerifyList(CkRecord) } :
       \E found \in { { f \in ckFs : f[1] = CkTdir /\ f[2] = todo[ckPos][2][3] } } :
          IF found = {}
          THEN ckExc' = "IOError" /\ ckPc' = "finally" /\ UNCHANGED ckPos
          ELSE IF \E f \in found : Digest(todo[ckPos][1], f[3]) # todo[ckPos][2][1]
          THEN ckExc' = "Mismatch" /\ ckPc' = "finally" /\ UNCHANGED ckPos
          ELSE IF ckPos < Len(todo)
          THEN ckPos' = ckPos + 1 /\ UNCHANGED << ckPc, ckExc >>
          ELSE ckPc' = "finally" /\ UNCHANGED << ckPos, ckExc >>
    /\ UNCHANGED << ckIndex, ckFs, ckDirs, ckPoolBefore, ckSrc, ckEnt, ckGot,
                    ckOutcomes, ckLog >>

\* the finally clause, shutil.rmtree(tdir), and what main does with the
\* exception: IOError is passed over, Mismatch is logged
CkFinally ==
    /\ ckPc = "finally"
    /\ IF CleanupRuns(ckExc)
       THEN /\ ckFs' = { f \in ckFs : f[1] # CkTdir }
            /\ ckDirs' = ckDirs \ { CkTdir }
       ELSE UNCHANGED << ckFs, ckDirs >>
    /\ ckOutcomes' = ckOutcomes \cup
                        { << ckSrc, ckEnt, IF ckExc = "None" THEN "ok" ELSE ckExc >> }
    /\ ckLog' = IF ckExc = "Mismatch" THEN ckLog \cup { << ckSrc, ckEnt, "FAIL" >> }
                ELSE ckLog
    /\ ckEnt' = ckEnt + 1
    /\ ckPc' = "main"
    /\ ckExc' = "None"
    /\ UNCHANGED << ckIndex, ckPoolBefore, ckSrc, ckPos, ckGot >>

\* the files of a paragraph in the pool directory of its package, when the
\* pool Sources of the package has the paragraph
PoolCopies(p, r) ==
    IF r \in Range(ckIndex[p].paras)
    THEN { << << "pool", p >>, n, PublishedContent(n) >> : n \in FileNames(r) }
    ELSE {}

CheckInit ==
    /\ ckIndex \in
         { [ p \in Range(CkDeclared) |-> IF p = "foo" THEN foo ELSE bar ] :
             foo \in { NoFile, IndexOf(<< CkRecBoth >>), IndexOf(<< CkRecWeakStale >>),
                       IndexOf(<< CkRecBoth, CkRecWeakStale >>) },
             bar \in { NoFile, IndexOf(<< CkRecFilesOnly >>) } }
    /\ ckFs = UNION { PoolCopies(p, r) :
                      p \in Range(CkDeclared),
                      r \in { CkRecBoth, CkRecWeakStale, CkRecFilesOnly } }
    /\ ckDirs = {}
    /\ ckPoolBefore = ckFs
    /\ ckPc = "main"
    /\ ckSrc = 1
    /\ ckEnt = 1
    /\ ckPos = 1
    /\ ckExc = "None"
    /\ ckGot = {}
    /\ ckOutcomes = {}
    /\ ckLog = {}

\* check-pool.py is not running
CheckIdle ==
    /\ ckIndex = << >>
    /\ ckFs = {}
    /\ ckDirs = {}
    /\ ckPoolBefore = {}
    /\ ckPc = "idle"
    /\ ckSrc = 0
    /\ ckEnt = 0
    /\ ckPos = 0
    /\ ckExc = "None"
    /\ ckGot = {}
    /\ ckOutcomes = {}
    /\ ckLog = {}



(***************************************************************************)
(* The charm: UbuntuMergesCharm (src/src/charm.py) handling the events     *)
(* install, upgrade-charm and start, and the workload class Merges         *)
(* (src/src/merges.py) it drives.                                          *)
(***************************************************************************)
MERGES_PORT == 8080
PATCHES_PORT == 8081

\* number of events delivered to the unit in one behaviour
MaxEvents == 3

\* ops.*Status(message)
UnknownStatus == [name |-> "unknown", message |-> ""]
ActiveStatus == [name |-> "active", message |-> ""]
MaintenanceStatus(message) == [name |-> "maintenance", message |-> message]
BlockedStatus(message) == [name |-> "blocked", message |-> message]

\* a port as Unit.set_ports opens it: an int stands for a TCP port
TCPPort(port) == [protocol |-> "tcp", port |-> port]

\* the events whose handlers are modelled, with the handler observing each
Observed == [install |-> "_on_install", upgrade_charm |-> "_on_install", start |-> "_on_start", config_changed |-> "_on_config_changed", merges_ingress_ready |-> "_on_config_changed", merges_ingress_revoked |-> "_on_config_changed", patches_ingress_ready |-> "_on_config_changed", patches_ingress_revoked |-> "_on_config_changed"]

\* Merges.install: the five steps, in order
InstallSteps ==
    << "_install_packages", "_configure_apache", "_setup_systemd_units",
       "_setup_directories", "_install_application" >>

\* what each step of Merges.install lets out: the exceptions it logs and
\* raises again, and for _configure_apache also the TimeoutExpired of
\* run(..., timeout=60), which no clause of the step names
Raises(step) ==
    CASE step = "_install_packages" ->
            {"CalledProcessError", "PackageNotFoundError", "PackageError"}
      [] step = "_configure_apache" ->
            {"CalledProcessError", "TimeoutExpired", "OSError", "shutil.Error"}
      [] step = "_setup_systemd_units" -> {"OSError", "CalledProcessError"}
      [] step = "_setup_directories" -> {"OSError"}
      [] step = "_install_application" -> {"OSError"}

\* the except clause of _on_install
InstallCatches(exc) ==
    exc \in {"CalledProcessError", "PackageError", "PackageNotFoundError",
             "IOError", "OSError", "shutil.Error"}

\* the except clause of _on_start
StartCatches(exc) == exc = "CalledProcessError"

\* the ports _on_start hands to Unit.set_ports
StartPorts_mergesOnly == { TCPPort(MERGES_PORT) }
StartPorts == { TCPPort(MERGES_PORT), TCPPort(PATCHES_PORT) }

\* the messages of the two Blocked statuses (the words juju debug-log stand
\* between backquotes in the source)
SetupFailed == "Failed to set up the environment. Check juju debug-log for details."
StartFailed == "Failed to start services. Check juju debug-log for details."

\* the two ingress relations of the charm, with the port each one serves
Ingresses == [merges |-> MERGES_PORT, patches |-> PATCHES_PORT]

\* f"http://{host}:{port}", and the URL an ingress provider publishes for a
\* relation; NoUrl is the falsy ingress.url of a relation that is not ready
HttpUrl(host, port) == [scheme |-> "http", host |-> host, port |-> port]
IngressUrl(relation) == [scheme |-> "https", host |-> relation, port |-> 0]
NoUrl == [scheme |-> "", host |-> "", port |-> 0]

\* model.get_binding("juju-info"): no binding, or its bind address
NoBinding == ""
BindAddresses == {NoBinding, "192.168.1.10"}

\* socket.getfqdn()
Fqdn == "test-host.example.com"

\* _get_external_url: the FQDN, replaced by the bind address of juju-info
\* when there is a binding, replaced by the ingress URL when it is set
get_external_url(url, binding, port) ==
    IF url # NoUrl THEN url
    ELSE IF binding # NoBinding THEN HttpUrl(binding, port)
    ELSE HttpUrl(Fqdn, port)

\* the attributes of class Merges that a handler can call
MergesMethods == {"install", "start", "configure", "refresh_report"}

\* positional arguments Merges.configure(self, url) takes
ConfigureParams == 1

\* the try body of _on_config_changed as far as it gets: the call of
\* configure with the two URLs, the call of restart_apache, set_ports
ConfigTry(args) ==
    IF Len(args) # ConfigureParams THEN "TypeError"
    ELSE IF "restart_apache" \notin MergesMethods THEN "AttributeError"
    ELSE "none"

\* the except clause of _on_config_changed
ConfigCatches(exc) == exc = "ValueError"

ConfigFailed == "Invalid configuration. Check juju debug-log for details."

VARIABLES
    unit_status,   \* self.unit.status
    opened_ports,  \* the ports of the unit that are open
    chEvents,      \* events delivered so far
    chEvent,       \* the event being handled, or handled last
    chPc,          \* position of the handler; "idle" between events
    chStep,        \* next step of Merges.install
    chExc,         \* exception raised by the Merges call, or "none"
    chEnded,       \* how the last handler ended: "returned" or "raised"
    chOpened,      \* ports the handler opened that were closed before it
    ingress_url,   \* ingress.url of each ingress relation
    juju_info,     \* bind address of the juju-info binding
    configured     \* argument lists with which the body of configure ran

charmVars == << unit_status, opened_ports, chEvents, chEvent, chPc, chStep,
                chExc, chEnded, chOpened, ingress_url, juju_info, configured >>

\* the ingress URL after an event: set by ready, cleared by revoked
IngressAfter(e) ==
    CASE e = "merges_ingress_ready" -> [ingress_url EXCEPT !.merges = IngressUrl("merges")]
      [] e = "merges_ingress_revoked" -> [ingress_url EXCEPT !.merges = NoUrl]
      [] e = "patches_ingress_ready" -> [ingress_url EXCEPT !.patches = IngressUrl("patches")]
      [] e = "patches_ingress_revoked" -> [ingress_url EXCEPT !.patches = NoUrl]
      [] OTHER -> ingress_url

\* the framework delivers an event to its observer
Emit ==
    /\ chPc = "idle"
    /\ chEvents < MaxEvents
    /\ \E e \in DOMAIN Observed :
          /\ chEvent' = e
          /\ chPc' = Observed[e]
          /\ ingress_url' = IngressAfter(e)
    /\ chEvents' = chEvents + 1
    /\ chStep' = 1
    /\ chExc' = "none"
    /\ chEnded' = "running"
    /\ chOpened' = {}
    /\ UNCHANGED << unit_status, opened_ports, juju_info, configured >>

\* _on_install, first statement
on_install_enter ==
    /\ chPc = "_on_install"
    /\ unit_status' = MaintenanceStatus("Setting up environment")
    /\ chPc' = "install"
    /\ UNCHANGED << opened_ports, chEvents, chEvent, chStep, chExc, chEnded, chOpened >>
    /\ UNCHANGED << ingress_url, juju_info, configured >>

\* Merges.install at its next step: the step returns or raises
install_step ==
    /\ chPc = "install"
    /\ chStep <= Len(InstallSteps)
    /\ \/ /\ chStep' = chStep + 1
          /\ UNCHANGED << chExc, chPc >>
       \/ /\ \E exc \in Raises(InstallSteps[chStep]) : chExc' = exc
          /\ chPc' = "install_except"
          /\ UNCHANGED chStep
    /\ UNCHANGED << unit_status, opened_ports, chEvents, chEvent, chEnded, chOpened >>
    /\ UNCHANGED << ingress_url, juju_info, configured >>

\* _on_install with an exception out of Merges.install: the except clause
\* sets Blocked and returns; any other exception leaves the handler
on_install_except ==
    /\ chPc = "install_except"
    /\ IF InstallCatches(chExc)
          THEN /\ unit_status' = BlockedStatus(SetupFailed)
               /\ chEnded' = "returned"
          ELSE /\ chEnded' = "raised"
               /\ UNCHANGED unit_status
    /\ chPc' = "idle"
    /\ UNCHANGED << opened_ports, chEvents, chEvent, chStep, chExc, chOpened >>
    /\ UNCHANGED << ingress_url, juju_info, configured >>

\* _on_install after Merges.install returned
on_install_return ==
    /\ chPc = "install"
    /\ chStep > Len(InstallSteps)
    /\ unit_status' = ActiveStatus
    /\ chPc' = "idle"
    /\ chEnded' = "returned"
    /\ UNCHANGED << opened_ports, chEvents, chEvent, chStep, chExc, chOpened >>
    /\ UNCHANGED << ingress_url, juju_info, configured >>

\* _on_start, first statement
on_start_enter ==
    /\ chPc = "_on_start"
    /\ unit_status' = MaintenanceStatus("Starting merges service")
    /\ chPc' = "start"
    /\ UNCHANGED << opened_ports, chEvents, chEvent, chStep, chExc, chEnded, chOpened >>
    /\ UNCHANGED << ingress_url, juju_info, configured >>

\* Merges.start inside the try of _on_start: it returns and the status
\* becomes 'Generating merges report', or it raises CalledProcessError
\* after logging it
start ==
    /\ chPc = "start"
    /\ \/ /\ unit_status' = MaintenanceStatus("Generating merges report")
          /\ chPc' = "set_ports"
          /\ UNCHANGED chExc
       \/ /\ chExc' = "CalledProcessError"
          /\ chPc' = "start_except"
          /\ UNCHANGED unit_status
    /\ UNCHANGED << opened_ports, chEvents, chEvent, chStep, chEnded, chOpened >>
    /\ UNCHANGED << ingress_url, juju_info, configured >>

\* the except clause of _on_start
on_start_except ==
    /\ chPc = "start_except"
    /\ IF StartCatches(chExc)
          THEN /\ unit_status' = BlockedStatus(StartFailed)
               /\ chEnded' = "returned"
          ELSE /\ chEnded' = "raised"
               /\ UNCHANGED unit_status
    /\ chPc' = "idle"
    /\ UNCHANGED << opened_ports, chEvents, chEvent, chStep, chExc, chOpened >>
    /\ UNCHANGED << ingress_url, juju_info, configured >>

\* self.unit.set_ports(MERGES_PORT, PATCHES_PORT): the open ports become
\* exactly the ones given
set_ports ==
    /\ chPc = "set_ports"
    /\ opened_ports' = StartPorts
    /\ chOpened' = StartPorts \ opened_ports
    /\ chPc' = "idle"
    /\ chEnded' = "returned"
    /\ UNCHANGED << unit_status, chEvents, chEvent, chStep, chExc >>
    /\ UNCHANGED << ingress_url, juju_info, configured >>

\* _on_config_changed, first statement
on_config_changed_enter ==
    /\ chPc = "_on_config_changed"
    /\ unit_status' = MaintenanceStatus("Updating configuration")
    /\ chPc' = "configure"
    /\ UNCHANGED << opened_ports, chEvents, chEvent, chStep, chExc, chEnded, chOpened >>
    /\ UNCHANGED << ingress_url, juju_info, configured >>

\* the try body of _on_config_changed: configure with the two external
\* URLs, restart_apache, set_ports; the body of configure only logs
configure ==
    /\ chPc = "configure"
    /\ \E args \in { << get_external_url(ingress_url.merges, juju_info, Ingresses.merges),
                         get_external_url(ingress_url.patches, juju_info, Ingresses.patches) >> } :
          /\ chExc' = ConfigTry(args)
          /\ configured' = IF Len(args) = ConfigureParams
                              THEN Append(configured, args) ELSE configured
    /\ opened_ports' = IF chExc' = "none" THEN StartPorts ELSE opened_ports
    /\ chOpened' = IF chExc' = "none" THEN StartPorts \ opened_ports ELSE chOpened
    /\ chPc' = "config_exit"
    /\ UNCHANGED << unit_status, chEvents, chEvent, chStep, chEnded, ingress_url, juju_info >>

\* the rest of _on_config_changed: Blocked for a ValueError, Active after a
\* try body that raised nothing; any other exception leaves the handler
on_config_changed_exit ==
    /\ chPc = "config_exit"
    /\ IF chExc = "none"
          THEN /\ unit_status' = ActiveStatus
               /\ chEnded' = "returned"
          ELSE IF ConfigCatches(chExc)
          THEN /\ unit_status' = BlockedStatus(ConfigFailed)
               /\ chEnded' = "returned"
          ELSE /\ chEnded' = "raised"
               /\ UNCHANGED unit_status
    /\ chPc' = "idle"
    /\ UNCHANGED << opened_ports, chEvents, chEvent, chStep, chExc, chOpened >>
    /\ UNCHANGED << ingress_url, juju_info, configured >>

CharmInit ==
    /\ unit_status = UnknownStatus
    /\ opened_ports = {}
    /\ chEvents = 0
    /\ chEvent = "none"
    /\ chPc = "idle"
    /\ chStep = 1
    /\ chExc = "none"
    /\ chEnded = "none"
    /\ chOpened = {}
    /\ ingress_url \in [DOMAIN Ingresses -> {NoUrl}]
    /\ juju_info \in BindAddresses
    /\ configured = << >>

CharmIdle ==
    /\ unit_status = UnknownStatus
    /\ opened_ports = {}
    /\ chEvents = 0
    /\ chEvent = "none"
    /\ chPc = "idle"
    /\ chStep = 1
    /\ chExc = "none"
    /\ chEnded = "none"
    /\ chOpened = {}
    /\ ingress_url = [r \in DOMAIN Ingresses |-> NoUrl]
    /\ juju_info = NoBinding
    /\ configured = << >>



(***************************************************************************)
(* The comment store: get_comments, add_comment and remove_old_comments    *)
(* of momlib.py on comments.txt, each in its own process, with the         *)
(* advisory locks of flock.                                                *)
(***************************************************************************)
\* comments each add_comment process writes in one behaviour
MaxAdds == 1

\* calls of remove_old_comments in one behaviour
MaxRemovals == 1

CommentPackages == {"foo", "bar"}

\* the processes: two web requests adding a comment, one page reading the
\* comments and one status run removing the old ones
Adders == {"add1", "add2"}
Procs == Adders \cup {"get", "rm"}

\* "%s: %s\n" % (package, the_comment)
CommentLine(package, comment) == << package, comment >>

\* where reading starts on a stream opened with "a+": at the start of the
\* file with the C library behind Python 2 file objects, at the end with
\* the io module of Python 3; the scripts start with 'env python'
ReadPositions == {"start", "end"}

\* the lines a read loop gets from the position of the stream to the end
LinesFrom(lines, position) == IF position = "start" THEN lines ELSE << >>

\* new_lines of remove_old_comments
KeepLines(lines, toremove) == SelectSeq(lines, LAMBDA line : line[1] \notin toremove)

VARIABLES
    comments_txt,  \* the lines of comments.txt
    lock_sh,       \* processes holding LOCK_SH on it
    lock_ex,       \* processes holding LOCK_EX on it
    cmPc,          \* position of each process
    cmAdds,        \* comments written so far by each add_comment process
    cmLine,        \* the line an add_comment process is about to write
    toremove,      \* toremove of the running remove_old_comments
    rmPosition,    \* read position of its stream after open
    new_lines,     \* new_lines of the running remove_old_comments
    comments,      \* the dictionary get_comments returned last
    cmExpected,    \* the lines added so far less the ones to remove
    cmRemovals     \* calls of remove_old_comments that completed

commentVars == << comments_txt, lock_sh, lock_ex, cmPc, cmAdds, cmLine,
                  toremove, rmPosition, new_lines, comments, cmExpected,
                  cmRemovals >>

\* flock(fd, LOCK_SH) and flock(fd, LOCK_EX) return when no other process
\* holds a conflicting lock
CanLockSh(p) == lock_ex \subseteq {p}
CanLockEx(p) == lock_ex \subseteq {p} /\ lock_sh \subseteq {p}

\* add_comment: open(comments_file(), "a")
AddOpen(p) ==
    /\ cmPc[p] = "idle"
    /\ cmAdds[p] < MaxAdds
    /\ \E package \in CommentPackages :
          cmLine' = [cmLine EXCEPT ![p] = CommentLine(package, p)]
    /\ cmPc' = [cmPc EXCEPT ![p] = "opened"]
    /\ UNCHANGED << comments_txt, lock_sh, lock_ex, cmAdds, toremove, rmPosition,
                    new_lines, comments, cmExpected, cmRemovals >>

\* add_comment: flock(file_comments, LOCK_EX)
AddLock(p) ==
    /\ cmPc[p] = "opened"
    /\ CanLockEx(p)
    /\ lock_ex' = lock_ex \cup {p}
    /\ cmPc' = [cmPc EXCEPT ![p] = "locked"]
    /\ UNCHANGED << comments_txt, lock_sh, cmAdds, cmLine, toremove, rmPosition,
                    new_lines, comments, cmExpected, cmRemovals >>

\* add_comment: the write, flushed at the end of the with block, where the
\* file is closed and the lock released; "a" appends at the end of the file
AddWrite(p) ==
    /\ cmPc[p] = "locked"
    /\ comments_txt' = Append(comments_txt, cmLine[p])
    /\ cmExpected' = Append(cmExpected, cmLine[p])
    /\ lock_ex' = lock_ex \ {p}
    /\ cmAdds' = [cmAdds EXCEPT ![p] = @ + 1]
    /\ cmPc' = [cmPc EXCEPT ![p] = "idle"]
    /\ UNCHANGED << lock_sh, cmLine, toremove, rmPosition, new_lines, comments,
                    cmRemovals >>

\* get_comments: open(comments_file(), "r") and flock(file_comments, LOCK_SH)
GetLock ==
    /\ cmPc["get"] = "idle"
    /\ CanLockSh("get")
    /\ lock_sh' = lock_sh \cup {"get"}
    /\ cmPc' = [cmPc EXCEPT !["get"] = "locked"]
    /\ UNCHANGED << comments_txt, lock_ex, cmAdds, cmLine, toremove, rmPosition,
                    new_lines, comments, cmExpected, cmRemovals >>

\* get_comments: the read loop, the last line of a package winning, and the
\* end of the with block
GetRead ==
    /\ cmPc["get"] = "locked"
    /\ comments' =
          [package \in { comments_txt[i][1] : i \in DOMAIN comments_txt } |->
             LET last == CHOOSE i \in DOMAIN comments_txt :
                            /\ comments_txt[i][1] = package
                            /\ \A j \in DOMAIN comments_txt :
                                  comments_txt[j][1] = package => j <= i
             IN  comments_txt[last][2]]
    /\ lock_sh' = lock_sh \ {"get"}
    /\ cmPc' = [cmPc EXCEPT !["get"] = "idle"]
    /\ UNCHANGED << comments_txt, lock_ex, cmAdds, cmLine, toremove, rmPosition,
                    new_lines, cmExpected, cmRemovals >>

\* remove_old_comments: toremove from the status file and the merges, then
\* open(comments_file(), "a+")
RemoveOpen ==
    /\ cmPc["rm"] = "idle"
    /\ cmRemovals < MaxRemovals
    /\ \E packages \in SUBSET CommentPackages : toremove' = packages
    /\ \E position \in ReadPositions : rmPosition' = position
    /\ cmPc' = [cmPc EXCEPT !["rm"] = "opened"]
    /\ UNCHANGED << comments_txt, lock_sh, lock_ex, cmAdds, cmLine, new_lines,
                    comments, cmExpected, cmRemovals >>

\* remove_old_comments: flock(file_comments, LOCK_EX)
RemoveLock ==
    /\ cmPc["rm"] = "opened"
    /\ CanLockEx("rm")
    /\ lock_ex' = lock_ex \cup {"rm"}
    /\ cmPc' = [cmPc EXCEPT !["rm"] = "locked"]
    /\ UNCHANGED << comments_txt, lock_sh, cmAdds, cmLine, toremove, rmPosition,
                    new_lines, comments, cmExpected, cmRemovals >>

\* remove_old_comments: the read loop that fills new_lines
RemoveRead ==
    /\ cmPc["rm"] = "locked"
    /\ new_lines' = KeepLines(LinesFrom(comments_txt, rmPosition), toremove)
    /\ cmPc' = [cmPc EXCEPT !["rm"] = "read"]
    /\ UNCHANGED << comments_txt, lock_sh, lock_ex, cmAdds, cmLine, toremove,
                    rmPosition, comments, cmExpected, cmRemovals >>

\* remove_old_comments: file_comments.truncate(0)
RemoveTruncate ==
    /\ cmPc["rm"] = "read"
    /\ comments_txt' = << >>
    /\ cmPc' = [cmPc EXCEPT !["rm"] = "truncated"]
    /\ UNCHANGED << lock_sh, lock_ex, cmAdds, cmLine, toremove, rmPosition,
                    new_lines, comments, cmExpected, cmRemovals >>

\* remove_old_comments: the write loop and the end of the with block
RemoveWrite ==
    /\ cmPc["rm"] = "truncated"
    /\ comments_txt' = comments_txt \o new_lines
    /\ cmExpected' = KeepLines(cmExpected, toremove)
    /\ lock_ex' = lock_ex \ {"rm"}
    /\ cmRemovals' = cmRemovals + 1
    /\ cmPc' = [cmPc EXCEPT !["rm"] = "idle"]
    /\ UNCHANGED << lock_sh, cmAdds, cmLine, toremove, rmPosition, new_lines,
                    comments >>

CommentIdle ==
    /\ comments_txt = << >>
    /\ lock_sh = {}
    /\ lock_ex = {}
    /\ cmPc = [p \in Procs |-> "idle"]
    /\ cmAdds = [p \in Adders |-> 0]
    /\ cmLine = [p \in Adders |-> << >>]
    /\ toremove = {}
    /\ rmPosition = "start"
    /\ new_lines = << >>
    /\ comments = << >>
    /\ cmExpected = << >>
    /\ cmRemovals = 0

\* comments.txt is created empty by the charm
CommentInit == CommentIdle

(***************************************************************************)
(* Removal below ROOT: tree.remove (app/util/tree.py), cleanup (momlib.py) *)
(* and the two places of expire-pool.py that delete from the pool, on a    *)
(* small file tree.  A path is the sequence of its components.             *)
(***************************************************************************)
\* removals in one behaviour
MaxTreeOps == 2

ROOT == << "srv" >>

\* os.path.split(path)[0]; the parent of "/" is "/"
Dirname(path) == SubSeq(path, 1, Len(path) - 1)

\* pool directory of a package and unpack directory of a version of foo
PoolDirOf(package) == ROOT \o << "pool", "f", package >>
UnpackDirOf(version) == ROOT \o << "unpacked", "f", "foo", version >>

\* path is below top, or top itself
Under(path, top) == Len(path) >= Len(top) /\ SubSeq(path, 1, Len(top)) = top

\* the entries of a directory
Entries(fs, dir) == { q \in DOMAIN fs : Len(q) = Len(dir) + 1 /\ Under(q, dir) }

\* tree.remove(filename): a symlink or a file is unlinked, a directory is
\* removed with everything below it, an absent path is left alone
TreeRemove(fs, filename) ==
    [ q \in { q \in DOMAIN fs : ~Under(q, filename) } |-> fs[q] ]

\* os.rmdir(dirname): the errno, or "ok"
Rmdir(fs, dirname) ==
    IF dirname \notin DOMAIN fs THEN "ENOENT"
    ELSE IF fs[dirname] # "dir" THEN "ENOTDIR"
    ELSE IF Entries(fs, dirname) # {} THEN "ENOTEMPTY"
    ELSE "ok"

\* the errno values at which the loop of cleanup stops without raising
CleanupBreaks == { "ENOTEMPTY", "ENOENT", "ENOTDIR" }

\* the trees the removals start from: package foo with its index and one
\* source file, with or without a second package in the same hash
\* directory; version 1.0 of foo unpacked or not, with or without a second
\* version, below an unpacked directory that is a directory or a symlink
TreeWith(fab, one, two, unpackedKind) ==
    LET always == { ROOT, ROOT \o << "pool" >>, ROOT \o << "pool", "f" >>,
                    PoolDirOf("foo"), PoolDirOf("foo") \o << "Sources" >>,
                    PoolDirOf("foo") \o << "foo_1.0-1.dsc" >>,
                    ROOT \o << "unpacked" >>, ROOT \o << "unpacked", "f" >>,
                    ROOT \o << "unpacked", "f", "foo" >> }
        more   == (IF fab THEN { PoolDirOf("fab"), PoolDirOf("fab") \o << "Sources" >> } ELSE {})
                  \cup (IF one THEN { UnpackDirOf("1.0"), UnpackDirOf("1.0") \o << "debian" >> } ELSE {})
                  \cup (IF two THEN { UnpackDirOf("2.0") } ELSE {})
        plain  == { PoolDirOf("foo") \o << "Sources" >>, PoolDirOf("foo") \o << "foo_1.0-1.dsc" >>,
                    PoolDirOf("fab") \o << "Sources" >> }
    IN  [ q \in always \cup more |->
            IF q \in plain THEN "file"
            ELSE IF q = ROOT \o << "unpacked" >> THEN unpackedKind
            ELSE "dir" ]

NoCall == [ op |-> "none", path |-> << >> ]

VARIABLES
    fsKind,     \* the paths that exist, each "dir", "file" or "link"
    trOps,      \* removals so far
    trCall,     \* the removal running, or the last one
    trPc,       \* "idle", or "loop" in the while loop of cleanup
    dirname,    \* dirname of cleanup
    trBefore,   \* the tree before the call
    trRaised,   \* the call ended with an OSError
    trIter      \* iterations of the while loop in this call

treeVars == << fsKind, trOps, trCall, trPc, dirname, trBefore, trRaised, trIter >>

\* expire_sources removing the source file of foo that no kept record
\* lists, after get_pool_sources read the index of foo, and
\* update_pool_sources writing the index again
ExpireFileCall ==
    /\ trPc = "idle"
    /\ trOps < MaxTreeOps
    /\ PoolDirOf("foo") \o << "Sources" >> \in DOMAIN fsKind
    /\ \E name \in { PoolDirOf("foo") \o << "foo_1.0-1.dsc" >> } :
          /\ trCall' = [ op |-> "expire_sources", path |-> name ]
          /\ fsKind' = TreeRemove(fsKind, name)
    /\ trBefore' = fsKind
    /\ trOps' = trOps + 1
    /\ trRaised' = FALSE
    /\ trIter' = 0
    /\ UNCHANGED << trPc, dirname >>

\* tree.remove on its own: main of expire-pool removing the pool directory
\* of a package no archive of the test declares, or a caller removing a
\* path that is not there
TreeRemoveCall ==
    /\ trPc = "idle"
    /\ trOps < MaxTreeOps
    /\ \E filename \in { PoolDirOf("foo"), PoolDirOf("fab"),
                         PoolDirOf("foo") \o << "foo_0.9-1.dsc" >> } :
          /\ trCall' = [ op |-> "tree.remove", path |-> filename ]
          /\ fsKind' = TreeRemove(fsKind, filename)
    /\ trBefore' = fsKind
    /\ trOps' = trOps + 1
    /\ trRaised' = FALSE
    /\ trIter' = 0
    /\ UNCHANGED << trPc, dirname >>

\* cleanup(path) up to the loop: tree.remove(path), dirname = the parent
CleanupCall ==
    /\ trPc = "idle"
    /\ trOps < MaxTreeOps
    /\ \E path \in { UnpackDirOf("1.0"), UnpackDirOf("2.0") } :
          /\ trCall' = [ op |-> "cleanup", path |-> path ]
          /\ fsKind' = TreeRemove(fsKind, path)
          /\ dirname' = Dirname(path)
    /\ trBefore' = fsKind
    /\ trOps' = trOps + 1
    /\ trRaised' = FALSE
    /\ trIter' = 0
    /\ trPc' = "loop"

\* one pass of 'while dirname != ROOT': rmdir removes the directory and the
\* loop goes to its parent, or rmdir fails and the loop breaks; an errno
\* the loop does not name (EACCES) is raised
CleanupLoop ==
    /\ trPc = "loop"
    /\ IF dirname = ROOT
       THEN /\ trPc' = "idle"
            /\ UNCHANGED << fsKind, dirname, trRaised, trIter >>
       ELSE \E errno \in { Rmdir(fsKind, dirname), "EACCES" } :
               /\ trIter' = trIter + 1
               /\ IF errno = "ok"
                  THEN /\ fsKind' = TreeRemove(fsKind, dirname)
                       /\ dirname' = Dirname(dirname)
                       /\ UNCHANGED << trPc, trRaised >>
                  ELSE /\ trPc' = "idle"
                       /\ trRaised' = (errno \notin CleanupBreaks)
                       /\ UNCHANGED << fsKind, dirname >>
    /\ UNCHANGED << trOps, trCall, trBefore >>

TreeInit ==
    /\ fsKind \in { TreeWith(fab, one, two, kind) :
                      fab \in BOOLEAN, one \in BOOLEAN, two \in BOOLEAN,
                      kind \in { "dir", "link" } }
    /\ trOps = 0
    /\ trCall = NoCall
    /\ trPc = "idle"
    /\ dirname = << >>
    /\ trBefore = << >>
    /\ trRaised = FALSE
    /\ trIter = 0

TreeIdle ==
    /\ fsKind = << >>
    /\ trOps = 0
    /\ trCall = NoCall
    /\ trPc = "idle"
    /\ dirname = << >>
    /\ trBefore = << >>
    /\ trRaised = FALSE
    /\ trIter = 0

(***************************************************************************)
(* Specifications: one per program.                                        *)
(***************************************************************************)
vars == << expVars, fetchVars, atomVars, baseVars, expireMainVars, checkVars,
           charmVars, commentVars, treeVars >>

\* what a step of this program leaves alone
OutsideExpire == << fetchVars, atomVars, baseVars, expireMainVars, checkVars,
                    charmVars, commentVars, treeVars >>

InitExpire ==
    /\ ExpireInit
    /\ FetchIdle
    /\ AtomicIdle
    /\ BaseIdle
    /\ ExpireMainIdle
    /\ CheckIdle
    /\ CharmIdle
    /\ CommentIdle
    /\ TreeIdle

ExpireNext ==
    \/ ExpirePoolSourcesCall /\ UNCHANGED OutsideExpire
    \/ ExpireSourcesCall /\ UNCHANGED OutsideExpire
    \/ ExpirePeerCall /\ UNCHANGED OutsideExpire

SpecExpire == InitExpire /\ [][ExpireNext]_vars

\* what a step of this program leaves alone
OutsideFetch == << expVars, atomVars, baseVars, expireMainVars, checkVars,
                   charmVars, commentVars, treeVars >>

InitFetch ==
    /\ FetchInit
    /\ ExpireIdle
    /\ AtomicIdle
    /\ BaseIdle
    /\ ExpireMainIdle
    /\ CheckIdle
    /\ CharmIdle
    /\ CommentIdle
    /\ TreeIdle

FetchNext ==
    \/ MainUpdateSources /\ UNCHANGED OutsideFetch
    \/ (\E w \in 1..Jobs : WorkerTake(w)) /\ UNCHANGED OutsideFetch
    \/ (\E w \in 1..Jobs : WorkerCheck(w)) /\ UNCHANGED OutsideFetch
    \/ (\E w \in 1..Jobs : WorkerTransfer(w)) /\ UNCHANGED OutsideFetch
    \/ MapReturn /\ UNCHANGED OutsideFetch
    \/ RunAgain /\ UNCHANGED OutsideFetch

SpecFetch == InitFetch /\ [][FetchNext]_vars

InitFetchShared ==
    /\ FetchSharedInit
    /\ ExpireIdle
    /\ AtomicIdle
    /\ BaseIdle
    /\ ExpireMainIdle
    /\ CheckIdle
    /\ CharmIdle
    /\ CommentIdle
    /\ TreeIdle

SpecFetchShared == InitFetchShared /\ [][FetchNext]_vars

\* what a step of this program leaves alone
OutsideAtomic == << expVars, fetchVars, baseVars, expireMainVars, checkVars,
                    charmVars, commentVars, treeVars >>

InitAtomic ==
    /\ AtomicInit
    /\ ExpireIdle
    /\ FetchIdle
    /\ BaseIdle
    /\ ExpireMainIdle
    /\ CheckIdle
    /\ CharmIdle
    /\ CommentIdle
    /\ TreeIdle

AtomicNext ==
    \/ AtomicEnter /\ UNCHANGED OutsideAtomic
    \/ WriteChunk /\ UNCHANGED OutsideAtomic
    \/ AtomicExit /\ UNCHANGED OutsideAtomic
    \/ WriterKilled /\ UNCHANGED OutsideAtomic
    \/ ReaderOpen /\ UNCHANGED OutsideAtomic
    \/ ReaderRead /\ UNCHANGED OutsideAtomic

SpecAtomic == InitAtomic /\ [][AtomicNext]_vars

\* what a step of this program leaves alone
OutsideBase == << expVars, fetchVars, atomVars, expireMainVars, checkVars,
                  charmVars, commentVars, treeVars >>

InitBase ==
    /\ BaseInit
    /\ ExpireIdle
    /\ FetchIdle
    /\ AtomicIdle
    /\ ExpireMainIdle
    /\ CheckIdle
    /\ CharmIdle
    /\ CommentIdle
    /\ TreeIdle

BaseNext ==
    \/ AppendSuffix /\ UNCHANGED OutsideBase
    \/ CallGetBase /\ UNCHANGED OutsideBase
    \/ CallGetBaseAgain /\ UNCHANGED OutsideBase

SpecBase == InitBase /\ [][BaseNext]_vars

\* what a step of this program leaves alone
OutsideExpireMain == << expVars, fetchVars, atomVars, baseVars, checkVars,
                        charmVars, commentVars, treeVars >>

InitExpireMain ==
    /\ ExpireMainInit
    /\ ExpireIdle
    /\ FetchIdle
    /\ AtomicIdle
    /\ BaseIdle
    /\ CheckIdle
    /\ CharmIdle
    /\ CommentIdle
    /\ TreeIdle

ExpireMainNext ==
    \/ OurSourceStep /\ UNCHANGED OutsideExpireMain
    \/ PeerStep /\ UNCHANGED OutsideExpireMain
    \/ GlobStep /\ UNCHANGED OutsideExpireMain
    \/ LoopExit /\ UNCHANGED OutsideExpireMain

SpecExpireMain == InitExpireMain /\ [][ExpireMainNext]_vars

\* what a step of this program leaves alone
OutsideCheck == << expVars, fetchVars, atomVars, baseVars, expireMainVars,
                   charmVars, commentVars, treeVars >>

InitCheck ==
    /\ CheckInit
    /\ ExpireIdle
    /\ FetchIdle
    /\ AtomicIdle
    /\ BaseIdle
    /\ ExpireMainIdle
    /\ CharmIdle
    /\ CommentIdle
    /\ TreeIdle

CheckNext ==
    \/ CkNextSource /\ UNCHANGED OutsideCheck
    \/ CkBegin /\ UNCHANGED OutsideCheck
    \/ CkDownload /\ UNCHANGED OutsideCheck
    \/ CkVerify /\ UNCHANGED OutsideCheck
    \/ CkFinally /\ UNCHANGED OutsideCheck

SpecCheck == InitCheck /\ [][CheckNext]_vars

\* what a step of this program leaves alone
OutsideCharm == << expVars, fetchVars, atomVars, baseVars, expireMainVars,
                   checkVars, commentVars, treeVars >>

InitCharm ==
    /\ CharmInit
    /\ ExpireIdle
    /\ FetchIdle
    /\ AtomicIdle
    /\ BaseIdle
    /\ ExpireMainIdle
    /\ CheckIdle
    /\ CommentIdle
    /\ TreeIdle

CharmNext ==
    \/ Emit /\ UNCHANGED OutsideCharm
    \/ on_install_enter /\ UNCHANGED OutsideCharm
    \/ install_step /\ UNCHANGED OutsideCharm
    \/ on_install_except /\ UNCHANGED OutsideCharm
    \/ on_install_return /\ UNCHANGED OutsideCharm
    \/ on_start_enter /\ UNCHANGED OutsideCharm
    \/ start /\ UNCHANGED OutsideCharm
    \/ on_start_except /\ UNCHANGED OutsideCharm
    \/ set_ports /\ UNCHANGED OutsideCharm
    \/ on_config_changed_enter /\ UNCHANGED OutsideCharm
    \/ configure /\ UNCHANGED OutsideCharm
    \/ on_config_changed_exit /\ UNCHANGED OutsideCharm

SpecCharm == InitCharm /\ [][CharmNext]_vars

\* what a step of this program leaves alone
OutsideComment == << expVars, fetchVars, atomVars, baseVars, expireMainVars,
                     checkVars, charmVars, treeVars >>

InitComment ==
    /\ CommentInit
    /\ ExpireIdle
    /\ FetchIdle
    /\ AtomicIdle
    /\ BaseIdle
    /\ ExpireMainIdle
    /\ CheckIdle
    /\ CharmIdle
    /\ TreeIdle

CommentNext ==
    \/ (\E p \in Adders : AddOpen(p)) /\ UNCHANGED OutsideComment
    \/ (\E p \in Adders : AddLock(p)) /\ UNCHANGED OutsideComment
    \/ (\E p \in Adders : AddWrite(p)) /\ UNCHANGED OutsideComment
    \/ GetLock /\ UNCHANGED OutsideComment
    \/ GetRead /\ UNCHANGED OutsideComment
    \/ RemoveOpen /\ UNCHANGED OutsideComment
    \/ RemoveLock /\ UNCHANGED OutsideComment
    \/ RemoveRead /\ UNCHANGED OutsideComment
    \/ RemoveTruncate /\ UNCHANGED OutsideComment
    \/ RemoveWrite /\ UNCHANGED OutsideComment

SpecComment == InitComment /\ [][CommentNext]_vars

\* what a step of this program leaves alone
OutsideTree == << expVars, fetchVars, atomVars, baseVars, expireMainVars,
                  checkVars, charmVars, commentVars >>

InitTree ==
    /\ TreeInit
    /\ ExpireIdle
    /\ FetchIdle
    /\ AtomicIdle
    /\ BaseIdle
    /\ ExpireMainIdle
    /\ CheckIdle
    /\ CharmIdle
    /\ CommentIdle

TreeNext ==
    \/ ExpireFileCall /\ UNCHANGED OutsideTree
    \/ TreeRemoveCall /\ UNCHANGED OutsideTree
    \/ CleanupCall /\ UNCHANGED OutsideTree
    \/ CleanupLoop /\ UNCHANGED OutsideTree

SpecTree == InitTree /\ [][TreeNext]_vars

(***************************************************************************)
(* update-pool run again and again by the scheduler, against a mirror      *)
(* whose requests do not fail for ever.                                    *)
(***************************************************************************)
\* update_sources saves the index of the triple
IndexSaved(p) == MainUpdateSources /\ pair = p /\ mainPc' = "map"

\* the request for a file is answered and the pool file opened
Opened(name) ==
    \E w \in 1..Jobs :
       /\ WorkerCheck(w)
       /\ CurFile(w)[2] = name
       /\ worker'[w].phase = "transfer"

\* the transfer of a file runs to its end
Transferred(name) ==
    \E w \in 1..Jobs :
       /\ WorkerTransfer(w)
       /\ CurFile(w)[2] = name
       /\ fileSize'[name] = mirrorSize[name]

\* every process that can run does run; a request made again and again is
\* answered at some time
FetchFairness ==
    /\ WF_fetchVars(RunAgain)
    /\ WF_fetchVars(MapReturn)
    /\ \A w \in 1..Jobs : WF_fetchVars(WorkerTake(w))
    /\ \A w \in 1..Jobs : WF_fetchVars(WorkerCheck(w))
    /\ \A w \in 1..Jobs : WF_fetchVars(WorkerTransfer(w))
    /\ WF_fetchVars(MainUpdateSources)
    /\ \A p \in 1..NumPairs : SF_fetchVars(IndexSaved(p))
    /\ \A name \in FetchFiles : SF_fetchVars(Opened(name))
    /\ \A name \in FetchFiles : SF_fetchVars(Transferred(name))

SpecFetchLive == InitFetch /\ [][FetchNext]_vars /\ FetchFairness

(***************************************************************************)
(* Properties of the expiry engine.                                        *)
(***************************************************************************)
\* the records of the pool index at the call whose version is below, or
\* equal to, the base of the call
BelowBase == { r \in Range(indexBefore.paras) : VersionCmp(r.Version, lastBase) = -1 }
ExactBase == { r \in Range(indexBefore.paras) : VersionCmp(r.Version, lastBase) = 0 }

\* C1: after expire_sources(keep, remove) every file name listed by a record
\* of keep that was on disk before the call is still on disk, also when a
\* record of remove lists the same name.
C1_KeptFilesSurvive ==
    call # "none" =>
        \A i \in DOMAIN lastKeep :
            \A f \in FileNames(lastKeep[i]) : f \in filesBefore => f \in poolFiles

\* a call that deleted a file and spared one that a removed record shares
\* with a kept record
C1_Witness ==
    /\ call = "expire_sources"
    /\ poolFiles # filesBefore
    /\ \E i \in DOMAIN lastKeep, j \in DOMAIN lastRemove :
          FileNames(lastKeep[i]) \cap FileNames(lastRemove[j]) \cap filesBefore # {}

\* C2: in expire_pool_sources, when no pool record has the base version and
\* some pool record is below the base, exactly one record below the base is
\* kept, it has the greatest version of them, and every other record below
\* the base is handed over for expiry.
C2_OneAncestorKept ==
    (call = "expire_pool_sources" /\ indexBefore.exists
       /\ ExactBase = {} /\ BelowBase # {}) =>
        \E k \in BelowBase :
            /\ Range(lastKeep) \cap BelowBase = { k }
            /\ \A r \in BelowBase : VersionCmp(r.Version, k.Version) # 1
            /\ BelowBase \ { k } = Range(lastRemove)

\* a call without the base in the pool and two records below it
C2_Witness ==
    /\ call = "expire_pool_sources"
    /\ indexBefore.exists
    /\ ExactBase = {}
    /\ Cardinality(BelowBase) >= 2
    /\ Len(lastRemove) >= 1

\* no file name is listed by two records of the pool index at the call
NoSharedFiles ==
    \A r1, r2 \in Range(indexBefore.paras) :
        r1 # r2 => FileNames(r1) \cap FileNames(r2) = {}

\* C3: when a pool record has the base version exactly and no file name is
\* shared between records, then after expire_pool_sources has returned every
\* file of every record below the base is absent and every file of every
\* record at or above the base is still present.
C3_EndToEnd ==
    (call = "expire_pool_sources" /\ indexBefore.exists /\ ~raised
       /\ ExactBase # {} /\ NoSharedFiles) =>
        \A r \in Range(indexBefore.paras) :
            IF r \in BelowBase
            THEN FileNames(r) \cap poolFiles = {}
            ELSE FileNames(r) \cap filesBefore \subseteq poolFiles

\* the pool [1.0-1, 1.1-1, 1.2-1] with the destination at 1.2-1ubuntu1 is
\* left with the files of 1.2-1 only
C3_Witness ==
    /\ call = "expire_pool_sources"
    /\ ~raised
    /\ lastBase = V_1_2_1
    /\ indexBefore.exists
    /\ Range(indexBefore.paras) = { Rec101, Rec111, Rec121 }
    /\ filesBefore = FileNames(Rec101) \cup FileNames(Rec111) \cup FileNames(Rec121)
    /\ poolFiles = FileNames(Rec121)

\* C4: a pool index that omits a version whose files are on disk never makes
\* expiry delete a file that this version needs: for every version that is
\* complete on disk, missing from the index and not below the base (so the
\* retention policy keeps it), all its files are still on disk after
\* expire_pool_sources.
C4_StaleIndexHarmless ==
    call = "expire_pool_sources" =>
        \A v \in Range(PoolUniverse) \ Range(indexBefore.paras) :
            (FileNames(v) \subseteq filesBefore
               /\ VersionCmp(v.Version, lastBase) # -1)
            => FileNames(v) \subseteq poolFiles

\* the versions the archive declares for the package of the last call
DeclaredVersions == { r.Version : r \in Range(lastKeep) }

\* C13: after the expiry of a package without a reference version, every
\* pool version its archive declares still has the files it had, every
\* other pool version has lost every file that no declared record lists,
\* and no file a declared record lists was deleted, whether or not an
\* unlink failed.
C13_PeerPolicy ==
    (call = "peer" /\ indexBefore.exists)
    => /\ KeepFiles(lastKeep) \cap filesBefore \subseteq poolFiles
       /\ ~raised =>
             \A r \in Range(indexBefore.paras) :
                IF r.Version \in DeclaredVersions
                THEN FileNames(r) \cap filesBefore \subseteq poolFiles
                ELSE FileNames(r) \cap poolFiles \subseteq KeepFiles(lastKeep)

\* a pool holding a declared and an undeclared version that share a file:
\* the undeclared one lost its own file and the shared one is still there
C13_Witness ==
    /\ call = "peer"
    /\ indexBefore.exists
    /\ ~raised
    /\ \E r \in Range(indexBefore.paras), k \in Range(indexBefore.paras) :
          /\ r.Version \notin DeclaredVersions
          /\ k.Version \in DeclaredVersions
          /\ (FileNames(r) \cap filesBefore) \ poolFiles # {}
          /\ FileNames(r) \cap FileNames(k) \cap poolFiles # {}

(***************************************************************************)
(* Properties of update-pool.                                              *)
(***************************************************************************)
RunEnded == mainPc \in { "done", "crashed" }

\* C5: when a run of update-pool has ended and every index was served, the
\* index of every triple has been fetched and update_pool has been called
\* for every record main selected, whether or not a download failed.
C5_BadPackageDoesNotBlock ==
    (RunEnded /\ \A p \in 1..NumPairs : indexState[p] # "missing")
    => \A p \in 1..NumPairs :
          /\ indexState[p] = "saved"
          /\ \A i \in DOMAIN Declared(p) :
                Eligible(Declared(p)[i]) => << p, Declared(p)[i] >> \in attempted

\* C6: when a run has ended and the mirror served the index of one triple
\* in no format, the run did not end in failure and the index of every
\* other triple was fetched.
C6_IndexUnavailableNotFatal ==
    (RunEnded /\ \E p \in 1..NumPairs : indexState[p] = "missing")
    => /\ mainPc = "done"
       /\ \A p \in 1..NumPairs : indexState[p] # "unfetched"

\* C7: in every state of update-pool a file that exists under its pool
\* name holds the whole content the mirror serves for it.
C7_NoPartialFile ==
    \A f \in FetchFiles : fileSize[f] # Absent => fileSize[f] = mirrorSize[f]

\* C8: a run that follows a run which ended without error hands no file
\* to urlretrieve.
C8_SecondRunDownloadsNothing ==
    (run >= 2 /\ prevClean) => downloaded = {}

\* C9: when a run has ended without error and downloaded a file of
\* package foo into its pool directory, the pool Sources index of foo
\* exists and lists the fetched record.
C9_IndexRegeneratedAfterFetch ==
    (mainPc = "done" /\ FileNames(Rec121) \cap downloaded # {})
    => sourcesFile.exists /\ Rec121 \in Range(sourcesFile.paras)

(***************************************************************************)
(* Properties of repeated runs of update-pool.                             *)
(***************************************************************************)
MirrorConsistent == \A f \in FetchFiles : mirrorSize[f] = DeclSize

\* the condition of the claim as first stated: the record is neither
\* blocklisted nor skipped for its marker
NotSkipped(source) ==
    source.Package \notin blocklist /\ source \notin changesMarked

\* with such a mirror a file that is present with its declared size
\* stays so
StaysPresent ==
    [][ MirrorConsistent =>
          \A f \in FetchFiles :
             fileSize[f] = DeclSize => fileSize'[f] = DeclSize ]_vars

Skipped(source) ==
    \/ source \in changesMarked
    \/ source.Package \in blocklist
    \/ packageOption.given /\ source.Package \notin packageOption.names

\* C23: in every run update_pool is never called for a record that is
\* marker-skipped, blocklisted or outside --package, no worker is at such a
\* record, and every name handed to urlretrieve is a file of a record that
\* is not skipped, whether or not the pool has the files of the skipped one
C23_SkippedNeverFetched ==
    /\ \A p \in 1..NumPairs : \A i \in DOMAIN Declared(p) :
          Skipped(Declared(p)[i]) =>
             /\ << p, Declared(p)[i] >> \notin attempted
             /\ \A w \in DOMAIN worker :
                   worker[w].phase # "idle" => CurRecord(w) # Declared(p)[i]
    /\ \A name \in downloaded :
          \E p \in 1..NumPairs : \E i \in DOMAIN Declared(p) :
             ~Skipped(Declared(p)[i]) /\ name \in FileNames(Declared(p)[i])

\* a run that ended after downloading the other records, with a
\* marker-skipped record whose file is missing from the pool
C23_Witness ==
    /\ RecBaz \in changesMarked
    /\ mainPc = "done"
    /\ downloaded # {}
    /\ \A f \in FileNames(RecBaz) : fileSize[f] = Absent

\* the chunks of the batch that worker processes are running
Running == { k \in DOMAIN tasks : result[k] = "running" }

\* between two states: a worker that stays at its record stays at its file
\* or moves to the next one of the list, and a worker that comes to a
\* record starts at its first file
FileListOrder ==
    \A w \in DOMAIN worker :
       worker'[w].phase # "idle" =>
          IF worker[w].phase # "idle" /\ worker'[w].task = worker[w].task
                /\ worker'[w].rec = worker[w].rec
             THEN worker'[w].file \in { worker[w].file, worker[w].file + 1 }
             ELSE worker'[w].file = 1

\* C24: at every moment at most Jobs chunks are running, each in a worker
\* of its own that is at one record and one file of it; the files of a
\* record are taken in the order of its file list; and while main fetches
\* an index no chunk of an earlier batch is queued or running
C24_BoundedSequential ==
    /\ [](/\ Cardinality(Running) <= Jobs
          /\ \A k \in Running :
                Cardinality({ w \in DOMAIN worker : worker[w].task = k }) = 1
          /\ mainPc = "sources" =>
                /\ tasks = << >>
                /\ \A w \in DOMAIN worker : worker[w].phase = "idle")
    /\ [][FileListOrder]_vars

\* Jobs chunks running while a third one waits in the queue
C24_Witness ==
    /\ Cardinality(Running) = Jobs
    /\ \E k \in DOMAIN tasks : result[k] = "queued"

\* "%s/%s/%s" % (ROOT, pool_directory(distro, package), name): the path a
\* worker in a transfer is writing
WritingPath(w) == << CurRecord(w).Package, CurFile(w)[2] >>

\* C29: no two workers are in a transfer to the same pool path at the same
\* time, also with an index that lists two versions of a package with the
\* same upstream tarball
C29_NoPathWrittenTwice ==
    \A w1, w2 \in DOMAIN worker :
       (w1 # w2 /\ worker[w1].phase = "transfer" /\ worker[w2].phase = "transfer")
          => WritingPath(w1) # WritingPath(w2)

(***************************************************************************)
(* Properties of AtomicFile.                                               *)
(***************************************************************************)
\* content put in place by a rename, or there from the start
Published(content) == Complete(content) /\ content.gen \in committed \cup { 0 }

\* C10: the target path and every descriptor a reader opened on it hold a
\* complete content that was there at the start or was renamed into place,
\* and after a with block that raised or was killed the target still is
\* the inode and content it was when the block began, the partial data
\* being under the .new name only.
C10_AtomicVisibility ==
    /\ \A c \in ContentAt(TargetName) : Published(c)
    /\ readerPc = "open" => Published(inode[readerFd])
    /\ \A c \in lastRead : Published(c)
    /\ outcome \in { "raised", "killed" }
       => << dirents[TargetName], ContentAt(TargetName) >> = targetBefore

\* a with block was killed after a partial write while a reader had the
\* target open, and the reader then read it
C10_Witness ==
    /\ outcome = "killed"
    /\ \E c \in ContentAt(NewName(TargetName)) : ~Complete(c) /\ c.chunks > 0
    /\ \E c \in lastRead : c.gen > 0
    /\ writes >= 2

(***************************************************************************)
(* Properties of get_base.                                                 *)
(***************************************************************************)
\* C11: get_base applied to the result of get_base gives the same version
\* as the first application, for every version string.
C11_GetBaseIdempotent ==
    gbStage = "twice" => VersionCmp(gbTwice, gbOnce) = 0

(***************************************************************************)
(* Properties of main of expire-pool.py.                                   *)
(***************************************************************************)
\* the pool directories the run looks at: of a distro of the run that is
\* to be expired, and of a package --package does not exclude
Examined(pooldir) ==
    /\ pooldir[1] \in Range(emDistros)
    /\ DistroExpire[pooldir[1]]
    /\ ~OptionSkips(pooldir[2])

\* C12 (as first stated): a pool directory is removed exactly when no
\* tracked archive declares its package; a directory whose package some
\* tracked archive declares is never removed.
C12_NoArchiveDeclares ==
    /\ \A pooldir \in emRemoved :
          pooldir[2] \notin ourDeclared \cup peerDeclared
    /\ emPc = "done" =>
          \A pooldir \in emDirsBefore :
             Examined(pooldir) =>
                (pooldir \in emRemoved
                 <=> pooldir[2] \notin ourDeclared \cup peerDeclared)

\* C12: a pool directory is only ever removed when neither the destination
\* archive nor its own archive declares its package, and a run that ends
\* normally has removed exactly those among the directories it looks at.
C12_OwnAndDestination ==
    /\ \A pooldir \in emRemoved :
          /\ pooldir[2] \notin ourDeclared
          /\ pooldir[2] \notin DistroDeclared(pooldir[1])
    /\ emPc = "done" =>
          \A pooldir \in emDirsBefore :
             Examined(pooldir) =>
                (pooldir \in emRemoved
                 <=> /\ pooldir[2] \notin ourDeclared
                     /\ pooldir[2] \notin DistroDeclared(pooldir[1]))

\* a run ended normally, removed a directory of the destination archive
\* whose package only debian declares, and kept a directory whose package
\* is declared
C12_Witness ==
    /\ emPc = "done"
    /\ \E pooldir \in emRemoved :
          pooldir[1] = OUR_DISTRO /\ pooldir[2] \in peerDeclared
    /\ \E pooldir \in emDirs : Examined(pooldir) /\ pooldir[2] \in ourDeclared

\* the expiry calls main makes when nothing raises: every distro of the run
\* for a package of the destination archive, its own distro for another
ExpiryDue ==
    { << d, p >> : d \in { e \in Range(emDistros) : DistroExpire[e] },
                   p \in { q \in ourDeclared : ~OptionSkips(q) } }
    \cup
    { << d, p >> : d \in { e \in Range(emDistros) : DistroExpire[e] } \ { OUR_DISTRO },
                   p \in { q \in peerDeclared \ ourDeclared : ~OptionSkips(q) } }

\* C14: when a run has ended, every expiry call that was due has been made,
\* whether or not a delete error made one of them raise.
C14_DeleteErrorAbortsPackageOnly ==
    (emPc \in { "done", "crashed" } /\ emFailed # {})
    => ExpiryDue \subseteq emExpired \cup emFailed

(***************************************************************************)
(* Properties of check-pool.py.                                            *)
(***************************************************************************)
\* directories and files left from mkdtemp
Scratch == ckDirs \cup { f[1] : f \in { g \in ckFs : g[1][1] = "tmp" } }

\* C15: whenever no call of check_source is in progress, no temporary
\* directory of a call exists, however the calls ended.
C15_ScratchRemoved ==
    ckPc \in { "main", "done" } => Scratch = {}

\* calls have ended normally, with a mismatch and with a failed download,
\* and nothing is left of their directories
C15_Witness ==
    /\ ckPc = "main"
    /\ Scratch = {}
    /\ \E a, b, c \in ckOutcomes :
          a[3] = "ok" /\ b[3] = "Mismatch" /\ c[3] = "IOError"

\* the paragraphs main has to check: those of every pool Sources it can read
CkDue ==
    UNION { { << i, k >> : k \in DOMAIN ckIndex[CkDeclared[i]].paras } :
            i \in DOMAIN CkDeclared }

\* C16: the files of the pool are at every moment those of the start of
\* the run; a mismatch and a failed download are logged; and a run that
\* has ended has checked every paragraph, whatever the earlier outcomes.
C16_Advisory ==
    /\ PoolFilesOf(ckFs) = ckPoolBefore
    /\ \A o \in ckOutcomes :
          /\ o[3] = "Mismatch" => << o[1], o[2], "FAIL" >> \in ckLog
          /\ o[3] = "IOError" => << o[1], o[2], "Downloading failed" >> \in ckLog
    /\ ckPc = "done" => CkDue = { << o[1], o[2] >> : o \in ckOutcomes }

\* a run has ended after a mismatch on one paragraph, a failed download on
\* another and a successful check of a later one
C16_Witness ==
    /\ ckPc = "done"
    /\ ckPoolBefore # {}
    /\ \E a, b, c \in ckOutcomes :
          /\ a[3] = "Mismatch" /\ b[3] = "IOError" /\ c[3] = "ok"
          /\ c[1] > a[1] /\ c[1] > b[1]

\* the call for paragraph o got every file of the paragraph
AllDownloaded(o) ==
    \A n \in FileNames(ckIndex[CkDeclared[o[1]]].paras[o[2]]) :
       \E g \in ckGot : g[1] = o[1] /\ g[2] = o[2] /\ g[3] = n

\* every entry of the strongest field of paragraph o agrees with the
\* download
StrongestAgrees(o) ==
    LET todo == VerifyList_strongest(ckIndex[CkDeclared[o[1]]].paras[o[2]])
    IN  \A k \in DOMAIN todo :
           \A g \in ckGot :
              (g[1] = o[1] /\ g[2] = o[2] /\ g[3] = todo[k][2][3])
              => Digest(todo[k][1], g[4]) = todo[k][2][1]

\* C17: the outcome of a call that downloaded every file is a mismatch
\* exactly when an entry of the strongest checksum field present disagrees
\* with the download; a weaker field has no part in it.
C17_StrongestFieldOnly ==
    \A o \in ckOutcomes :
       AllDownloaded(o) => (o[3] = "ok" <=> StrongestAgrees(o))

(***************************************************************************)
(* Properties of the charm's handlers.                                     *)
(***************************************************************************)
\* the handler of an install or upgrade-charm event is over
InstallHandled == chPc = "idle" /\ chEvent \in {"install", "upgrade_charm"}

\* C19: when the handler of an install or upgrade-charm event is over, the
\* unit status is Active if Merges.install returned, Blocked with the
\* set-up message if it raised PackageError, PackageNotFoundError or
\* CalledProcessError, and in no case still a Maintenance status
C19_InstallEndsActiveOrBlocked ==
    InstallHandled =>
       /\ chExc = "none" => unit_status = ActiveStatus
       /\ chExc \in {"PackageError", "PackageNotFoundError", "CalledProcessError"}
             => unit_status = BlockedStatus(SetupFailed)
       /\ unit_status.name # "maintenance"

\* the handler of a start event is over
StartHandled == chPc = "idle" /\ chEvent = "start"

\* C20: when the handler of a start event is over and Merges.start
\* returned, the status is Maintenance('Generating merges report') and the
\* open ports are exactly TCP 8080 and TCP 8081; when Merges.start raised
\* CalledProcessError the status is Blocked with the start message, the
\* handler opened no port and the open ports are as before the event
C20_StartStatusAndPorts ==
    StartHandled =>
       /\ chExc = "none" =>
             /\ unit_status = MaintenanceStatus("Generating merges report")
             /\ opened_ports = { [protocol |-> "tcp", port |-> 8080],
                                 [protocol |-> "tcp", port |-> 8081] }
       /\ chExc = "CalledProcessError" =>
             /\ unit_status = BlockedStatus(StartFailed)
             /\ chOpened = {}
             /\ (chEvents = 1 => opened_ports = {})

\* a start event that opened both ports, after an earlier event of the same
\* unit that left them closed
C20_Witness ==
    /\ StartHandled
    /\ chExc = "none"
    /\ chEvents >= 2
    /\ chOpened = StartPorts

\* the handler of a config-changed event, or of an ingress event, is over
ConfigHandled == chPc = "idle" /\ chEvent \in DOMAIN Observed /\ Observed[chEvent] = "_on_config_changed"

\* the two URLs the handler is to hand over: for each relation the ingress
\* URL, else the bind address of juju-info, else the FQDN, with the port of
\* the relation
ExpectedUrls ==
    << IF ingress_url.merges # NoUrl THEN ingress_url.merges
       ELSE IF juju_info # NoBinding
          THEN [scheme |-> "http", host |-> juju_info, port |-> 8080]
          ELSE [scheme |-> "http", host |-> Fqdn, port |-> 8080],
       IF ingress_url.patches # NoUrl THEN ingress_url.patches
       ELSE IF juju_info # NoBinding
          THEN [scheme |-> "http", host |-> juju_info, port |-> 8081]
          ELSE [scheme |-> "http", host |-> Fqdn, port |-> 8081] >>

\* C21: when the handler of a config-changed or ingress event is over after
\* the first event of the unit, configure has run exactly once, with the
\* merges URL and the patches URL chosen by the priority, and the status is
\* Active; had configure raised ValueError the status is Blocked with the
\* configuration message
C21_ConfigureOnceWithTwoUrls ==
    (ConfigHandled /\ chEvents = 1) =>
       IF chExc = "ValueError"
          THEN unit_status = BlockedStatus(ConfigFailed)
          ELSE /\ configured = << ExpectedUrls >>
               /\ unit_status = ActiveStatus

(***************************************************************************)
(* Properties of the comment store.                                        *)
(***************************************************************************)
\* writers exclude each other and the readers
LocksExclude ==
    /\ Cardinality(lock_ex) <= 1
    /\ lock_ex # {} => lock_sh = {}

\* C22: at most one process holds the exclusive lock and none holds the
\* shared lock with it; whenever no remove_old_comments is in the middle
\* of its rewrite, the store holds exactly the lines added so far whose
\* package no completed remove_old_comments had in its removal set, in the
\* order they were added
C22_NoCommentLost ==
    /\ LocksExclude
    /\ cmPc["rm"] \notin {"read", "truncated"} => comments_txt = cmExpected

(***************************************************************************)
(* Properties of removal and pruning.                                      *)
(***************************************************************************)
\* a removal has returned without raising
Removed == trCall.op # "none" /\ trPc = "idle" /\ ~trRaised

\* the directories between a path and ROOT
Ancestors(path) ==
    { SubSeq(path, 1, n) : n \in (Len(ROOT) + 1)..(Len(path) - 1) }

\* no directory above the removed path and below ROOT is left empty
PrunedUpward ==
    \A a \in Ancestors(trCall.path) :
       (a \in DOMAIN fsKind /\ fsKind[a] = "dir") =>
          \E q \in DOMAIN fsKind : Len(q) = Len(a) + 1 /\ SubSeq(q, 1, Len(a)) = a

\* C25: tree.remove of a path that is not there changes nothing and does
\* not raise; once a path that was there has been removed by any of the
\* removals of the pool and of the unpacked sources, no directory between
\* it and ROOT is left empty (a symlink on the way stays); ROOT is never
\* removed, every path that exists has its parent, and the loop ran at most
\* once per component of the path
C25_RemoveAndPrune ==
    /\ ROOT \in DOMAIN fsKind
    /\ \A q \in DOMAIN fsKind : Len(q) > Len(ROOT) =>
          SubSeq(q, 1, Len(q) - 1) \in DOMAIN fsKind
    /\ trIter <= Len(trCall.path)
    /\ Removed =>
          IF trCall.path \notin DOMAIN trBefore
             THEN trCall.op = "tree.remove" => fsKind = trBefore
             ELSE trCall.path \notin DOMAIN fsKind /\ PrunedUpward

\* C26: a package whose pool directory has no readable Sources index is
\* skipped by the expiry: the call returns without an error, no file of
\* the directory is deleted or created and no index is written, both in
\* expire_pool_sources and in the pass of main over the packages that
\* only the package's own archive declares.
C26_MissingIndexSkipped ==
    (call \in { "expire_pool_sources", "peer" } /\ ~indexBefore.exists) =>
        /\ ~raised
        /\ poolFiles = filesBefore
        /\ sourcesFile = indexBefore
        /\ ~regenerated

\* a directory holding the files of a version below the base and no
\* Sources index has been through expire_pool_sources
C26_Witness ==
    /\ call = "expire_pool_sources"
    /\ ~indexBefore.exists
    /\ lastBase = V_1_2_1
    /\ FileNames(Rec101) \subseteq filesBefore

\* C27: after an expiry call the pool index is regenerated if and only if
\* the call deleted at least one file; an index that is not regenerated is
\* the file it was, and a regenerated index lists no version one of whose
\* files was removed.
C27_RegeneratedIffDeleted ==
    LET DeletedByCall == filesBefore \ poolFiles
    IN  call \in { "expire_pool_sources", "expire_sources", "peer" } =>
           /\ regenerated <=> DeletedByCall # {}
           /\ ~regenerated => sourcesFile = indexBefore
           /\ regenerated =>
                 \A i \in DOMAIN sourcesFile.paras :
                    FileNames(sourcesFile.paras[i]) \cap DeletedByCall = {}

\* C28: expire_pool_sources never keeps nothing: when the pool index lists
\* at least one record, the call keeps at least one record and every file
\* of the kept records is still on disk after it; when no record of the
\* index is below the base, whether or not a record has the base version,
\* no file is deleted and the index is not rewritten.
C28_NeverKeepsNothing ==
    (call = "expire_pool_sources" /\ indexBefore.exists
       /\ indexBefore.paras # << >>) =>
        /\ lastKeep # << >>
        /\ Range(lastKeep) \subseteq Range(indexBefore.paras)
        /\ KeepFiles(lastKeep) \subseteq poolFiles
        /\ (\A i \in DOMAIN indexBefore.paras :
               ~IsOlder(lastBase, indexBefore.paras[i]))
           => /\ poolFiles = filesBefore
              /\ sourcesFile = indexBefore
              /\ lastRemove = << >>

\* every record of the index was below a base that the index does not
\* list, and the call kept the newest of them
C28_Witness ==
    /\ call = "expire_pool_sources"
    /\ ~raised
    /\ Range(indexBefore.paras) = { Rec101, Rec111 }
    /\ lastBase = V_1_2_1
    /\ lastKeep = << Rec111 >>
    /\ poolFiles = FileNames(Rec111)

\* C30: a run of expire-pool makes an expiry call or removes a directory
\* only for a pool directory of a distro that is among the distros of the
\* run and whose "expire" entry is true, and, when --package is given, of
\* a named package; the set of pool directories changes by the removed
\* ones only, so every directory out of scope is still there.
C30_InScopeOnly ==
    /\ \A pooldir \in emExpired \cup emFailed \cup emRemoved :
          /\ pooldir[1] \in Range(emDistros)
          /\ emExpire[pooldir[1]]
          /\ emOption.given => pooldir[2] \in emOption.names
    /\ emRemoved \subseteq emDirsBefore
    /\ emDirs = emDirsBefore \ emRemoved

\* a run over both distros with --package foo ended: the pool directory
\* of foo in debian was removed; the one of foo in ubuntu, whose "expire"
\* entry is false, and the one of bar in debian, which --package does not
\* name, are still there although no archive declares the two packages
C30_Witness ==
    /\ emPc = "done"
    /\ emDistros = DistroList
    /\ emOption.given
    /\ ~emExpire["ubuntu"]
    /\ ourDeclared = {}
    /\ peerDeclared = {}
    /\ << "debian", "foo" >> \in emRemoved
    /\ << "ubuntu", "foo" >> \in emDirs
    /\ << "debian", "bar" >> \in emDirs

====
